---------------------------- MODULE Spec2Model ----------------------------
(***************************************************************************)
(* Model of the raster reprojection core of ol3raster:                     *)
(*   ol.reproj.Triangulation (adaptive triangulation of a target extent,   *)
(*   clipping in source space, source extent of the mesh).                 *)
(*                                                                         *)
(* JavaScript numbers are modelled as exact extended rationals <<n, d>>:   *)
(*   d > 0   the rational n/d in lowest terms,                             *)
(*   <<1,0>> +Infinity, <<-1,0>> -Infinity, <<0,0>> NaN.                   *)
(* Comparisons and arithmetic follow IEEE-754 for the non-finite values    *)
(* (a comparison with NaN is false, Infinity - Infinity is NaN); rounding  *)
(* and the sign of zero are not modelled.                                  *)
(***************************************************************************)
EXTENDS Integers, Sequences, FiniteSets, TLC

(***************************************************************************)
(* Bounds of the model.                                                    *)
(***************************************************************************)
\* largest subdivision budget (maxSubdiv) handed to the seed quad
MaxDepth == 2
\* number of calculateSourceExtent calls that are observed
MaxExtentCalls == 2

(***************************************************************************)
(* Numbers.                                                                *)
(***************************************************************************)
Abs(i) == IF i < 0 THEN -i ELSE i

Sgn(i) == IF i < 0 THEN -1 ELSE IF i > 0 THEN 1 ELSE 0

RECURSIVE Gcd(_, _)
Gcd(a, b) == IF b = 0 THEN a ELSE Gcd(b, a % b)

\* the number n/d (d may be 0: +-Infinity or NaN)
Q(n, d) ==
  IF d = 0 THEN <<Sgn(n), 0>>
  ELSE IF d = 1 THEN <<n, 1>>
  ELSE LET g == Gcd(Abs(n), Abs(d))
           s == IF d < 0 THEN -1 ELSE 1
       IN <<(s * n) \div g, (s * d) \div g>>

N(i) == <<i, 1>>

PosInf == <<1, 0>>
NegInf == <<-1, 0>>
NaN == <<0, 0>>

isFiniteNumber(a) == a[2] # 0

Neg(a) == <<-a[1], a[2]>>

Add(a, b) ==
  IF a[2] # 0 /\ b[2] # 0 THEN Q(a[1] * b[2] + b[1] * a[2], a[2] * b[2])
  ELSE IF a = NaN \/ b = NaN THEN NaN
  ELSE IF a[2] = 0 /\ b[2] = 0 THEN (IF a = b THEN a ELSE NaN)
  ELSE IF a[2] = 0 THEN a ELSE b

Sub(a, b) == Add(a, Neg(b))

Mul(a, b) == Q(a[1] * b[1], a[2] * b[2])

Recip(a) == IF a[1] < 0 THEN <<-a[2], -a[1]>> ELSE <<a[2], a[1]>>

Div(a, b) == Mul(a, Recip(b))

Half(a) == Div(a, N(2))

\* a < b
Lt(a, b) ==
  /\ a # NaN
  /\ b # NaN
  /\ IF a[2] # 0 /\ b[2] # 0 THEN a[1] * b[2] < b[1] * a[2]
     ELSE IF a[2] = 0 THEN a = NegInf /\ b # NegInf
     ELSE b = PosInf

Gt(a, b) == Lt(b, a)

\* a <= b
Le(a, b) == a # NaN /\ b # NaN /\ ~Lt(b, a)

Ge(a, b) == Le(b, a)

\* Math.min, Math.max: NaN if either argument is NaN
MathMin(a, b) == IF a = NaN \/ b = NaN THEN NaN ELSE IF Lt(b, a) THEN b ELSE a

MathMax(a, b) == IF a = NaN \/ b = NaN THEN NaN ELSE IF Lt(a, b) THEN b ELSE a

\* the integer part of a finite number, towards zero
Trunc(a) ==
  IF a[1] >= 0 THEN a[1] \div a[2] ELSE -((-a[1]) \div a[2])

\* the JavaScript remainder a % b: the sign of the dividend
Rem(a, b) ==
  IF a[2] = 0 \/ b = NaN \/ b = N(0) THEN NaN
  ELSE IF b[2] = 0 THEN a
  ELSE Sub(a, Mul(b, N(Trunc(Div(a, b)))))

\* goog.math.modulo: the remainder with the sign of the divisor
modulo(a, b) ==
  LET r == Rem(a, b)
  IN IF Lt(Mul(r, b), N(0)) THEN Add(r, b) ELSE r

\* goog.math.clamp: Math.min(Math.max(value, min), max)
clamp(value, min, max) == MathMin(MathMax(value, min), max)

(***************************************************************************)
(* Coordinates <<x, y>> and extents <<minX, minY, maxX, maxY>> (ol.extent). *)
(***************************************************************************)
Null == <<>>

getTopLeft(extent) == <<extent[1], extent[4]>>

getTopRight(extent) == <<extent[3], extent[4]>>

getBottomRight(extent) == <<extent[3], extent[2]>>

getBottomLeft(extent) == <<extent[1], extent[2]>>

getWidth(extent) == Sub(extent[3], extent[1])

getHeight(extent) == Sub(extent[4], extent[2])

createEmpty == <<PosInf, PosInf, NegInf, NegInf>>

extendCoordinate(extent, coordinate) ==
  LET e1 == IF Lt(coordinate[1], extent[1]) THEN coordinate[1] ELSE extent[1]
      e3 == IF Gt(coordinate[1], extent[3]) THEN coordinate[1] ELSE extent[3]
      e2 == IF Lt(coordinate[2], extent[2]) THEN coordinate[2] ELSE extent[2]
      e4 == IF Gt(coordinate[2], extent[4]) THEN coordinate[2] ELSE extent[4]
  IN <<e1, e2, e3, e4>>

RECURSIVE extendCoordinates(_, _)
extendCoordinates(extent, coordinates) ==
  IF coordinates = <<>> THEN extent
  ELSE extendCoordinates(extendCoordinate(extent, Head(coordinates)),
                         Tail(coordinates))

boundingExtent(coordinates) == extendCoordinates(createEmpty, coordinates)

intersects(extent1, extent2) ==
  /\ Le(extent1[1], extent2[3])
  /\ Ge(extent1[3], extent2[1])
  /\ Le(extent1[2], extent2[4])
  /\ Ge(extent1[4], extent2[2])

containsCoordinate(extent, coordinate) ==
  /\ Le(extent[1], coordinate[1])
  /\ Le(coordinate[1], extent[3])
  /\ Le(extent[2], coordinate[2])
  /\ Le(coordinate[2], extent[4])

\* ol.coordinate.getLineIntersection: the point where the lines through
\* the two segments meet (the two-line determinant formula)
getLineIntersection(line1, line2) ==
  LET x1 == line1[1][1]
      y1 == line1[1][2]
      x2 == line1[2][1]
      y2 == line1[2][2]
      x3 == line2[1][1]
      y3 == line2[1][2]
      x4 == line2[2][1]
      y4 == line2[2][2]
      det == Sub(Mul(Sub(x1, x2), Sub(y3, y4)), Mul(Sub(y1, y2), Sub(x3, x4)))
      c12 == Sub(Mul(x1, y2), Mul(y1, x2))
      c34 == Sub(Mul(x3, y4), Mul(y3, x4))
  IN <<Div(Sub(Mul(c12, Sub(x3, x4)), Mul(Sub(x1, x2), c34)), det),
       Div(Sub(Mul(c12, Sub(y3, y4)), Mul(Sub(y1, y2), c34)), det)>>

(***************************************************************************)
(* ol.math.solveLinearSystem: Gaussian elimination with partial pivoting   *)
(* on the augmented matrix A, a sequence of n rows of n + 1 numbers.       *)
(***************************************************************************)
MathAbs(a) == IF a[1] < 0 THEN Neg(a) ELSE a

\* the pivot search with no search: the row of the diagonal
maxRowFromDiagonal(A, i, r, maxRow) == i

\* the search loop from row r on: the first row with the greatest absolute
\* value in column i, maxRow being the best of the rows before r
RECURSIVE maxRowFrom(_, _, _, _)
maxRowFrom(A, i, r, maxRow) ==
  IF r > Len(A) THEN maxRow
  ELSE maxRowFrom(A, i, r + 1,
                  IF Gt(MathAbs(A[r][i]), MathAbs(A[maxRow][i])) THEN r
                  ELSE maxRow)

swapRows(A, i, maxRow) ==
  [r \in 1..Len(A) |->
     IF r = i THEN A[maxRow] ELSE IF r = maxRow THEN A[i] ELSE A[r]]

\* the rows below row i made 0 in column i
eliminateColumn(A, i) ==
  [j \in 1..Len(A) |->
     IF j <= i THEN A[j]
     ELSE LET coef == Neg(Div(A[j][i], A[i][i]))
          IN [k \in 1..(Len(A) + 1) |->
                IF k < i THEN A[j][k]
                ELSE IF k = i THEN N(0)
                ELSE Add(A[j][k], Mul(coef, A[i][k]))]]

\* the outer loop with no test of the pivot
RECURSIVE forwardEliminationUntested(_, _)
forwardEliminationUntested(A, i) ==
  IF i > Len(A) THEN A
  ELSE LET maxRow == maxRowFrom(A, i, i + 1, i)
           B == eliminateColumn(swapRows(A, i, maxRow), i)
       IN IF B = B THEN forwardEliminationUntested(B, i + 1) ELSE Null

\* the outer loop from column i on: Null when a column has no pivot
RECURSIVE forwardElimination(_, _)
forwardElimination(A, i) ==
  IF i > Len(A) THEN A
  ELSE LET maxRow == maxRowFrom(A, i, i + 1, i)
           maxEl == MathAbs(A[maxRow][i])
           B == eliminateColumn(swapRows(A, i, maxRow), i)
       IN IF maxEl = N(0) THEN Null
          ELSE IF B = B THEN forwardElimination(B, i + 1) ELSE Null

\* the second loop, from row l down: x[l..n] known
RECURSIVE backSubstitution(_, _, _)
backSubstitution(A, l, x) ==
  IF l = 0 THEN x
  ELSE LET n == Len(A)
           xl == Div(A[l][n + 1], A[l][l])
           B == [m \in 1..n |->
                   IF m < l
                   THEN [A[m] EXCEPT ![n + 1] = Sub(@, Mul(A[m][l], xl))]
                   ELSE A[m]]
           y == [x EXCEPT ![l] = xl]
       IN IF B = B /\ y = y THEN backSubstitution(B, l - 1, y) ELSE x

solveLinearSystem(A) ==
  LET U == forwardElimination(A, 1)
  IN IF U = Null THEN Null
     ELSE backSubstitution(U, Len(A), [k \in 1..Len(A) |-> N(0)])

(***************************************************************************)
(* Sutherland-Hodgman clipping of a quad against an extent.  A vertex is   *)
(* [ref, at]: ref is the heap address of the coordinate array it is, or 0  *)
(* for an array getLineIntersection has just made; at is its value.        *)
(***************************************************************************)
Vertex(ref, at) == [ref |-> ref, at |-> at]

\* the inside test with < for <=
isInsideStrict(a, b, p) ==
  Lt(Sub(Mul(Sub(b[1], a[1]), Sub(p[2], a[2])),
         Mul(Sub(b[2], a[2]), Sub(p[1], a[1]))), N(0))

isInside(a, b, p) ==
  Le(Sub(Mul(Sub(b[1], a[1]), Sub(p[2], a[2])),
         Mul(Sub(b[2], a[2]), Sub(p[1], a[1]))), N(0))

\* the edges of the extent: top, right, bottom, left
extentEdges(extent) ==
  LET tl == getTopLeft(extent)
      tr == getTopRight(extent)
      bl == getBottomLeft(extent)
      br == getBottomRight(extent)
  IN <<<<tl, tr>>, <<tr, br>>, <<br, bl>>, <<bl, tl>>>>

\* the inner forEach: vertices i..Len clipped against one edge, S the
\* vertex before vertex i
RECURSIVE clipEdgeFrom(_, _, _, _)
clipEdgeFrom(vertices, edge, S, i) ==
  IF i > Len(vertices) THEN <<>>
  ELSE LET E == vertices[i]
           X == Vertex(0, getLineIntersection(<<S.at, E.at>>, edge))
           out == IF isInside(edge[1], edge[2], E.at)
                  THEN IF ~isInside(edge[1], edge[2], S.at)
                       THEN <<X, E>>
                       ELSE <<E>>
                  ELSE IF isInside(edge[1], edge[2], S.at)
                       THEN <<X>>
                       ELSE <<>>
       IN out \o clipEdgeFrom(vertices, edge, E, i + 1)

\* vertices[vertices.length - 1] of an empty array is undefined, and the
\* inner forEach then has nothing to visit
clipEdge(vertices, edge) ==
  IF vertices = <<>> THEN <<>>
  ELSE clipEdgeFrom(vertices, edge, vertices[Len(vertices)], 1)

\* the outer forEach: the ring left after all four edges
clipRing(a, b, c, d, extent) ==
  LET edges == extentEdges(extent)
  IN clipEdge(clipEdge(clipEdge(clipEdge(<<a, b, c, d>>, edges[1]),
                                edges[2]), edges[3]), edges[4])

(***************************************************************************)
(* ol.ext.earcut for a ring of five or more vertices: ear clipping.        *)
(***************************************************************************)
NumSgn(a) == IF Lt(a, N(0)) THEN -1 ELSE IF Gt(a, N(0)) THEN 1 ELSE 0

Cross(o, p, q) ==
  Sub(Mul(Sub(p[1], o[1]), Sub(q[2], o[2])),
      Mul(Sub(p[2], o[2]), Sub(q[1], o[1])))

RECURSIVE RingArea2(_, _)
RingArea2(ring, i) ==
  IF i > Len(ring) THEN N(0)
  ELSE LET p == ring[i].at
           q == ring[(i % Len(ring)) + 1].at
       IN Add(Sub(Mul(p[1], q[2]), Mul(q[1], p[2])), RingArea2(ring, i + 1))

\* p lies in the triangle (a, b, c), its border included
PointInTriangle(p, a, b, c) ==
  LET s1 == NumSgn(Cross(a, b, p))
      s2 == NumSgn(Cross(b, c, p))
      s3 == NumSgn(Cross(c, a, p))
  IN \/ (s1 >= 0 /\ s2 >= 0 /\ s3 >= 0 /\ s1 + s2 + s3 > 0)
     \/ (s1 <= 0 /\ s2 <= 0 /\ s3 <= 0 /\ s1 + s2 + s3 < 0)

IsEar(ring, i, sgn) ==
  LET n == Len(ring)
      prev == ring[((i + n - 2) % n) + 1].at
      next == ring[(i % n) + 1].at
      v == ring[i].at
  IN /\ sgn # 0
     /\ NumSgn(Cross(prev, v, next)) = sgn
     /\ \A j \in 1..n :
          ring[j].at \in {prev, v, next}
            \/ ~PointInTriangle(ring[j].at, prev, v, next)

RECURSIVE earcutLinked(_, _)
earcutLinked(ring, sgn) ==
  LET n == Len(ring)
      ears == {i \in 1..n : IsEar(ring, i, sgn)}
  IN IF n < 3 \/ ears = {} THEN <<>>
     ELSE LET i == CHOOSE e \in ears : \A o \in ears : e <= o
              prev == ring[((i + n - 2) % n) + 1]
              next == ring[(i % n) + 1]
              rest == [k \in 1..(n - 1) |-> IF k < i THEN ring[k] ELSE ring[k + 1]]
          IN <<prev, ring[i], next>> \o earcutLinked(rest, sgn)

earcut(ring) == earcutLinked(ring, NumSgn(RingArea2(ring, 1)))

\* the arrays getLineIntersection made get the provisional address -i, i
\* their place in the ring: the same array may be a vertex of two triangles
nameNewVertices(vertices) ==
  [i \in 1..Len(vertices) |->
     IF vertices[i].ref = 0 THEN Vertex(-i, vertices[i].at) ELSE vertices[i]]

\* the raw triangles (a flat sequence of vertices) of a clipped ring
trianglesOfRing(vertices) ==
  IF Len(vertices) < 3 THEN <<>>
  ELSE IF Len(vertices) = 3 THEN vertices
  ELSE IF Len(vertices) = 4
       THEN <<vertices[1], vertices[2], vertices[3],
              vertices[1], vertices[3], vertices[4]>>
  ELSE earcut(vertices)

triangulateQuadExtentIntersection_(a, b, c, d, extent) ==
  trianglesOfRing(nameNewVertices(clipRing(a, b, c, d, extent)))

(***************************************************************************)
(* The inputs of a triangulation.                                          *)
(***************************************************************************)
Ext(minX, minY, maxX, maxY) == <<N(minX), N(minY), N(maxX), N(maxY)>>

\* the point transforms between the two projections: a family of pairs
\* (transformInv_, transformFwd_) drawn by name
TransformKinds ==
  {"identity", "scale", "bend", "twist", "wrap", "const", "pole", "nan"}

TargetExtents == {Ext(0, 0, 8, 8), Ext(-5, -5, 15, 15), Ext(170, 0, 190, 10)}

\* source projections [extent, canWrapX, global]: a world in degrees that
\* wraps, and a small extent with every combination of the two flags
SourceProjections ==
  {[extent |-> Ext(-180, -90, 180, 90), canWrapX |-> TRUE, global |-> TRUE]}
    \cup {[extent |-> Ext(0, 0, 10, 10), canWrapX |-> w, global |-> g] :
            w \in BOOLEAN, g \in BOOLEAN}

ErrorThresholds == {N(1), N(4)}

\* ol.RASTER_REPROJ_MAX_TRIANGLE_WIDTH
RASTER_REPROJ_MAX_TRIANGLE_WIDTH == Q(1, 4)

VARIABLES
  transform,               \* names transformInv_ and transformFwd_
  targetExtent,            \* the constructor's targetExtent
  maxSubdivision,          \* ol.RASTER_REPROJ_MAX_SUBDIVISION of this run
  sourceProj_,             \* [extent, canWrapX, global]
  maxSourceExtent_,        \* an extent or Null
  errorThresholdSquared_,
  triangles_,              \* sequence of [source, target]; source holds addresses
  trianglesSourceExtent_,  \* Null or the cached extent
  wrapsXInSource_,
  heap,                    \* the source coordinate arrays, by address
  stack,                   \* pending addQuadIfValid_ calls, the next one first
  quads,                   \* history: the addQuadIfValid_ calls made so far
  origin,                  \* history: for each triangle, the call that added it
  returned,                \* history: what calculateSourceExtent returned
  clipQuad,                \* the arguments a, b, c, d of a clipping on its own
  clipExtent,              \* its argument extent
  vertices,                \* the ring it is left with
  clipDone                 \* whether it has run

inputs ==
  <<transform, targetExtent, maxSubdivision, sourceProj_, maxSourceExtent_,
    errorThresholdSquared_>>

triangulationVars ==
  <<inputs, triangles_, trianglesSourceExtent_, wrapsXInSource_, heap, stack,
    quads, origin, returned>>

clipVars == <<clipQuad, clipExtent, vertices, clipDone>>

VARIABLES
  matrixA,                 \* the argument A of a solveLinearSystem on its own
  vectorX,                 \* what it returned: Null or the vector
  solved,                  \* whether it has run
  renderArgs,              \* the arguments of a renderTriangles
  context,                 \* the canvas context it draws on
  triangleIndex,           \* how many triangles its forEach has visited
  tileArgs,                \* the arguments of a createTile
  dstImage,                \* the tile it returned
  srcTiles,                \* the source tiles it collected
  getTileCalls,            \* history: the calls of getTileFunction
  leftToLoad,              \* its counter of source tiles not yet loaded
  reprojections,           \* history: the source tile states at each reproject()
  sourceOptions,           \* the options of a TileImage source
  tileGridForProjection,   \* its grids by projection key
  gridSet,                 \* history: the last grid set for each projection
  retrieved,               \* history: what getTileGridForProjection returned
  imageArgs,               \* the arguments of a createImage
  srcImage,                \* the image getImageFunction gave it
  reprojectedImage,        \* what it returned
  changeEvents,            \* history: the change events of the source image
  tileCache,               \* the tile cache of a TileImage source, by key
  tileCacheForProjection,  \* its tile caches by projection key
  tileFunctions,           \* its tileUrlFunction and tileLoadFunction
  tileCount,               \* how many tiles have been constructed
  sourceCalls              \* history: the getTile and setter calls on it

solverVars == <<matrixA, vectorX, solved>>

renderVars == <<renderArgs, context, triangleIndex>>

tileVars ==
  <<tileArgs, dstImage, srcTiles, getTileCalls, leftToLoad, reprojections>>

sourceVars == <<sourceOptions, tileGridForProjection, gridSet, retrieved>>

imageVars == <<imageArgs, srcImage, reprojectedImage, changeEvents>>

cacheVars ==
  <<tileCache, tileCacheForProjection, tileFunctions, tileCount, sourceCalls>>

\* the variables the triangulator and the clipper leave alone
rasterVars ==
  <<solverVars, renderVars, tileVars, sourceVars, imageVars, cacheVars>>

vars == <<triangulationVars, clipVars, rasterVars>>

\* no solveLinearSystem on its own is under way
SolverIdle ==
  /\ matrixA = <<>>
  /\ vectorX = Null
  /\ solved = FALSE

\* no renderTriangles is under way
RenderIdle ==
  /\ renderArgs = <<>>
  /\ context = <<>>
  /\ triangleIndex = 0

\* no createTile is under way
TileIdle ==
  /\ tileArgs = <<>>
  /\ dstImage = <<>>
  /\ srcTiles = <<>>
  /\ getTileCalls = <<>>
  /\ leftToLoad = 0
  /\ reprojections = <<>>

\* no TileImage source exists
SourceIdle ==
  /\ sourceOptions = <<>>
  /\ tileGridForProjection = <<>>
  /\ gridSet = <<>>
  /\ retrieved = <<>>

\* no createImage is under way
ImageIdle ==
  /\ imageArgs = <<>>
  /\ srcImage = <<>>
  /\ reprojectedImage = <<>>
  /\ changeEvents = <<>>

\* no tile has been asked of a TileImage source
CacheIdle ==
  /\ tileCache = <<>>
  /\ tileCacheForProjection = <<>>
  /\ tileFunctions = <<>>
  /\ tileCount = 0
  /\ sourceCalls = <<>>

RasterIdle ==
  SolverIdle /\ RenderIdle /\ TileIdle /\ SourceIdle /\ ImageIdle /\ CacheIdle

\* y is bent by x * x / 2: the midpoint of a quad of width w is off by
\* w * w / 8 from the mean of its corners a and c.  y is twisted by
\* x * y / 8: the midpoint of a quad is the mean of its four corners, and
\* off by width * height / 32 from the mean of a and c
transformInvOf(kind, p) ==
  CASE kind = "identity" -> p
    [] kind = "scale" -> <<Half(p[1]), Half(p[2])>>
    [] kind = "bend" -> <<p[1], Add(p[2], Half(Mul(p[1], p[1])))>>
    [] kind = "twist" -> <<p[1], Add(p[2], Div(Mul(p[1], p[2]), N(8)))>>
    [] kind = "wrap" ->
         <<Sub(modulo(Add(p[1], N(180)), N(360)), N(180)), p[2]>>
    [] kind = "const" -> <<N(3), N(3)>>
    [] kind = "pole" -> <<p[1], IF Gt(p[2], N(8)) THEN PosInf ELSE p[2]>>
    [] kind = "nan" -> IF Gt(p[2], N(8)) THEN <<NaN, NaN>> ELSE p
    [] kind = "shift" -> <<Add(p[1], N(32)), p[2]>>

transformFwdOf(kind, p) ==
  CASE kind = "scale" -> <<Mul(N(2), p[1]), Mul(N(2), p[2])>>
    [] kind = "bend" -> <<p[1], Sub(p[2], Half(Mul(p[1], p[1])))>>
    [] kind = "twist" -> <<p[1], Div(p[2], Add(N(1), Div(p[1], N(8))))>>
    [] OTHER -> p

transformInv_(p) == transformInvOf(transform, p)

transformFwd_(p) == transformFwdOf(transform, p)

sourceWorldWidth_ == getWidth(sourceProj_.extent)

Midpoint(p, q) == <<Half(Add(p[1], q[1])), Half(Add(p[2], q[2]))>>

\* the same arguments with the corners listed the other way round
QuadCounterClockwise(a, b, c, d, aSrc, bSrc, cSrc, dSrc, maxSubdiv) ==
  [a |-> a, b |-> d, c |-> c, d |-> b,
   aSrc |-> aSrc, bSrc |-> dSrc, cSrc |-> cSrc, dSrc |-> bSrc,
   maxSubdiv |-> maxSubdiv]

Quad(a, b, c, d, aSrc, bSrc, cSrc, dSrc, maxSubdiv) ==
  [a |-> a, b |-> b, c |-> c, d |-> d,
   aSrc |-> aSrc, bSrc |-> bSrc, cSrc |-> cSrc, dSrc |-> dSrc,
   maxSubdiv |-> maxSubdiv]

\* the quad of the constructor's call: the corners of the target extent,
\* their sources in the first four arrays
SeedQuad ==
  Quad(getTopLeft(targetExtent), getTopRight(targetExtent),
       getBottomRight(targetExtent), getBottomLeft(targetExtent),
       1, 2, 3, 4, maxSubdivision)

\* no clipping on its own is under way
ClipIdle ==
  /\ clipQuad = <<>>
  /\ clipExtent = Null
  /\ vertices = <<>>
  /\ clipDone = FALSE

\* the constructor, up to its call of addQuadIfValid_
Triangulation ==
  /\ transform \in TransformKinds
  /\ targetExtent \in TargetExtents
  /\ maxSubdivision \in 0..MaxDepth
  /\ sourceProj_ \in SourceProjections
  /\ maxSourceExtent_ \in {Null, sourceProj_.extent}
  /\ errorThresholdSquared_ \in {Mul(t, t) : t \in ErrorThresholds}
  /\ triangles_ = <<>>
  /\ trianglesSourceExtent_ = Null
  /\ wrapsXInSource_ = FALSE
  /\ LET tlDst == getTopLeft(targetExtent)
         trDst == getTopRight(targetExtent)
         brDst == getBottomRight(targetExtent)
         blDst == getBottomLeft(targetExtent)
     IN /\ heap = <<transformInv_(tlDst), transformInv_(trDst),
                    transformInv_(brDst), transformInv_(blDst)>>
        /\ stack = <<SeedQuad>>
  /\ quads = <<>>
  /\ origin = <<>>
  /\ returned = <<>>

Init == Triangulation /\ ClipIdle /\ RasterIdle

(***************************************************************************)
(* addQuadIfValid_: one call, on the quad at the head of the stack.  The   *)
(* four recursive calls of a subdivision are pushed in calling order, so   *)
(* they run depth first, as the recursion does.                            *)
(***************************************************************************)
srcQuadExtent(f) ==
  boundingExtent(<<heap[f.aSrc], heap[f.bSrc], heap[f.cSrc], heap[f.dSrc]>>)

srcCoverageX(f) == Div(getWidth(srcQuadExtent(f)), sourceWorldWidth_)

wrapsX(f) ==
  /\ sourceProj_.canWrapX
  /\ Gt(srcCoverageX(f), Q(1, 2))
  /\ Lt(srcCoverageX(f), N(1))

\* the early return forgotten
quadIsOutsideNever(f) == FALSE

\* the early return: the whole quad is outside the source extent
quadIsOutside(f) ==
  /\ maxSourceExtent_ # Null
  /\ ~intersects(srcQuadExtent(f), maxSourceExtent_)

\* the error with the y term forgotten
centerSrcErrorSquaredXOnly(f) ==
  LET centerSrc == transformInv_(Midpoint(f.a, f.c))
      aSrc == heap[f.aSrc]
      cSrc == heap[f.cSrc]
      dx == IF wrapsX(f)
            THEN Sub(Half(Add(modulo(aSrc[1], sourceWorldWidth_),
                              modulo(cSrc[1], sourceWorldWidth_))),
                     modulo(centerSrc[1], sourceWorldWidth_))
            ELSE Sub(Half(Add(aSrc[1], cSrc[1])), centerSrc[1])
  IN Mul(dx, dx)

\* the error with the modulo taken of the mean of the two x, not of each
centerSrcErrorSquaredModuloOfMean(f) ==
  LET centerSrc == transformInv_(Midpoint(f.a, f.c))
      aSrc == heap[f.aSrc]
      cSrc == heap[f.cSrc]
      dx == IF wrapsX(f)
            THEN Sub(modulo(Half(Add(aSrc[1], cSrc[1])), sourceWorldWidth_),
                     modulo(centerSrc[1], sourceWorldWidth_))
            ELSE Sub(Half(Add(aSrc[1], cSrc[1])), centerSrc[1])
      dy == Sub(Half(Add(aSrc[2], cSrc[2])), centerSrc[2])
  IN Add(Mul(dx, dx), Mul(dy, dy))

centerSrcErrorSquared(f) ==
  LET center == Midpoint(f.a, f.c)
      centerSrc == transformInv_(center)
      aSrc == heap[f.aSrc]
      cSrc == heap[f.cSrc]
      dx == IF wrapsX(f)
            THEN Sub(Half(Add(modulo(aSrc[1], sourceWorldWidth_),
                              modulo(cSrc[1], sourceWorldWidth_))),
                     modulo(centerSrc[1], sourceWorldWidth_))
            ELSE Sub(Half(Add(aSrc[1], cSrc[1])), centerSrc[1])
      dy == Sub(Half(Add(aSrc[2], cSrc[2])), centerSrc[2])
  IN Add(Mul(dx, dx), Mul(dy, dy))

\* the forced subdivision without the isGlobal test
forcedSubdivisionAnyProjection(f) ==
  /\ ~wrapsX(f)
  /\ Gt(srcCoverageX(f), RASTER_REPROJ_MAX_TRIANGLE_WIDTH)

\* the forced subdivision with half the world for the maximum width
forcedSubdivisionAboveHalf(f) ==
  /\ ~wrapsX(f)
  /\ sourceProj_.global
  /\ Gt(srcCoverageX(f), Q(1, 2))

forcedSubdivision(f) ==
  /\ ~wrapsX(f)
  /\ sourceProj_.global
  /\ Gt(srcCoverageX(f), RASTER_REPROJ_MAX_TRIANGLE_WIDTH)

needsSubdivision(f) ==
  \/ forcedSubdivision(f)
  \/ Gt(centerSrcErrorSquared(f), errorThresholdSquared_)

\* the depth test off by one, either way
subdividesAtZero(f) == f.maxSubdiv >= 0 /\ needsSubdivision(f)

subdividesAboveOne(f) == f.maxSubdiv > 1 /\ needsSubdivision(f)

subdivides(f) == f.maxSubdiv > 0 /\ needsSubdivision(f)

\* some corner of the quad is outside the source extent: the leaf is clipped
leafIsClipped(f) ==
  /\ maxSourceExtent_ # Null
  /\ \/ ~containsCoordinate(maxSourceExtent_, heap[f.aSrc])
     \/ ~containsCoordinate(maxSourceExtent_, heap[f.bSrc])
     \/ ~containsCoordinate(maxSourceExtent_, heap[f.cSrc])
     \/ ~containsCoordinate(maxSourceExtent_, heap[f.dSrc])

makeFinite(coord, extent) ==
  <<IF ~isFiniteNumber(coord[1]) THEN clamp(coord[1], extent[1], extent[3])
    ELSE coord[1],
    IF ~isFiniteNumber(coord[2]) THEN clamp(coord[2], extent[2], extent[4])
    ELSE coord[2]>>

\* the record addTriangle_ pushes
addTriangle_(a, b, c, aSrc, bSrc, cSrc) ==
  [source |-> <<aSrc, bSrc, cSrc>>, target |-> <<a, b, c>>]

\* the renderer's read tri.needsShift: a property addTriangle_ never set is
\* undefined, which is falsy
needsShift(tri) ==
  IF "needsShift" \in DOMAIN tri THEN tri.needsShift ELSE FALSE

\* history record of a call: its quad, with the source corners as they are
\* when it is made, how it was classified and how it ended
Call(f, outcome) ==
  [a |-> f.a, b |-> f.b, c |-> f.c, d |-> f.d,
   aSrc |-> heap[f.aSrc], bSrc |-> heap[f.bSrc],
   cSrc |-> heap[f.cSrc], dSrc |-> heap[f.dSrc],
   maxSubdiv |-> f.maxSubdiv, wrapsX |-> wrapsX(f), outcome |-> outcome]

calls == Len(quads)

leaves == Cardinality({k \in 1..Len(quads) : quads[k].outcome # "subdivided"})

QuadOutside ==
  /\ stack # <<>>
  /\ LET f == Head(stack)
     IN /\ quadIsOutside(f)
        /\ stack' = Tail(stack)
        /\ quads' = Append(quads, Call(f, "outside"))
  /\ UNCHANGED <<inputs, triangles_, trianglesSourceExtent_, wrapsXInSource_,
                 heap, origin, returned, clipVars, rasterVars>>

QuadSubdivide ==
  /\ stack # <<>>
  /\ LET f == Head(stack)
         center == Midpoint(f.a, f.c)
         ab == Midpoint(f.a, f.b)
         bc == Midpoint(f.b, f.c)
         cd == Midpoint(f.c, f.d)
         da == Midpoint(f.d, f.a)
         centerSrc == Len(heap) + 1
         abSrc == Len(heap) + 2
         bcSrc == Len(heap) + 3
         cdSrc == Len(heap) + 4
         daSrc == Len(heap) + 5
     IN /\ ~quadIsOutside(f)
        /\ subdivides(f)
        /\ heap' = heap \o <<transformInv_(center), transformInv_(ab),
                             transformInv_(bc), transformInv_(cd),
                             transformInv_(da)>>
        /\ stack' =
             <<Quad(f.a, ab, center, da, f.aSrc, abSrc, centerSrc, daSrc,
                    f.maxSubdiv - 1),
               Quad(ab, f.b, bc, center, abSrc, f.bSrc, bcSrc, centerSrc,
                    f.maxSubdiv - 1),
               Quad(center, bc, f.c, cd, centerSrc, bcSrc, f.cSrc, cdSrc,
                    f.maxSubdiv - 1),
               Quad(da, center, cd, f.d, daSrc, centerSrc, cdSrc, f.dSrc,
                    f.maxSubdiv - 1)>> \o Tail(stack)
        /\ quads' = Append(quads, Call(f, "subdivided"))
  /\ UNCHANGED <<inputs, triangles_, trianglesSourceExtent_, wrapsXInSource_,
                 origin, returned, clipVars, rasterVars>>

\* the provisional addresses of the arrays getLineIntersection made that
\* are a vertex of some raw triangle
madeRefs(tris) == {tris[i].ref : i \in 1..Len(tris)} \ (1..Len(heap))

\* the heap address of a vertex of the raw triangles: the arrays made by
\* getLineIntersection follow the arrays already on the heap, in ring order
addressOf(tris, v) ==
  IF v.ref > 0 THEN v.ref
  ELSE Len(heap) + Cardinality({r \in madeRefs(tris) : r >= v.ref})

madeArrays(tris) ==
  LET refs == madeRefs(tris)
      refAt(k) == CHOOSE r \in refs : Cardinality({q \in refs : q >= r}) = k
      valueOf(r) == tris[CHOOSE i \in 1..Len(tris) : tris[i].ref = r].at
  IN [k \in 1..Cardinality(refs) |-> valueOf(refAt(k))]

QuadLeafClipped ==
  /\ stack # <<>>
  /\ ~quadIsOutside(Head(stack))
  /\ ~subdivides(Head(stack))
  /\ leafIsClipped(Head(stack))
  /\ \E f \in {Head(stack)} :
     \E finite \in {[r \in 1..Len(heap) |->
                       IF r \in {f.aSrc, f.bSrc, f.cSrc, f.dSrc}
                       THEN makeFinite(heap[r], maxSourceExtent_)
                       ELSE heap[r]]} :
     \E tris \in {triangulateQuadExtentIntersection_(
                    Vertex(f.aSrc, finite[f.aSrc]),
                    Vertex(f.bSrc, finite[f.bSrc]),
                    Vertex(f.cSrc, finite[f.cSrc]),
                    Vertex(f.dSrc, finite[f.dSrc]), maxSourceExtent_)} :
        /\ wrapsXInSource_' = (wrapsXInSource_ \/ wrapsX(f))
        /\ heap' = finite \o madeArrays(tris)
        /\ triangles_' = triangles_ \o
             [i \in 1..(Len(tris) \div 3) |->
                addTriangle_(transformFwd_(tris[3 * i - 2].at),
                             transformFwd_(tris[3 * i - 1].at),
                             transformFwd_(tris[3 * i].at),
                             addressOf(tris, tris[3 * i - 2]),
                             addressOf(tris, tris[3 * i - 1]),
                             addressOf(tris, tris[3 * i]))]
        /\ origin' = origin \o [i \in 1..(Len(tris) \div 3) |-> Len(quads) + 1]
        /\ quads' = Append(quads, Call(f, "clipped"))
        /\ stack' = Tail(stack)
  /\ UNCHANGED <<inputs, trianglesSourceExtent_, returned, clipVars, rasterVars>>

QuadLeaf ==
  /\ stack # <<>>
  /\ LET f == Head(stack)
     IN /\ ~quadIsOutside(f)
        /\ ~subdivides(f)
        /\ ~leafIsClipped(f)
        /\ wrapsXInSource_' = (wrapsXInSource_ \/ wrapsX(f))
        /\ triangles_' = triangles_ \o
             <<addTriangle_(f.a, f.c, f.d, f.aSrc, f.cSrc, f.dSrc),
               addTriangle_(f.a, f.b, f.c, f.aSrc, f.bSrc, f.cSrc)>>
        /\ origin' = origin \o <<Len(quads) + 1, Len(quads) + 1>>
        /\ quads' = Append(quads, Call(f, "leaf"))
        /\ stack' = Tail(stack)
  /\ UNCHANGED <<inputs, trianglesSourceExtent_, heap, returned, clipVars, rasterVars>>

addQuadIfValid_ ==
  QuadOutside \/ QuadSubdivide \/ QuadLeafClipped \/ QuadLeaf

(***************************************************************************)
(* calculateSourceExtent, once the constructor has returned.               *)
(***************************************************************************)
RECURSIVE extendWithTriangles(_, _, _)
extendWithTriangles(extent, i, wrap) ==
  IF i > Len(triangles_) THEN extent
  ELSE LET src == [k \in 1..3 |-> heap[triangles_[i].source[k]]]
           shifted == [k \in 1..3 |->
                         IF wrap
                         THEN <<modulo(src[k][1], sourceWorldWidth_), src[k][2]>>
                         ELSE src[k]]
           extended == extendCoordinate(extendCoordinate(extendCoordinate(
                         extent, shifted[1]), shifted[2]), shifted[3])
       IN \* the comparison makes the evaluation of each step strict
          IF extended = extended
          THEN extendWithTriangles(extended, i + 1, wrap)
          ELSE extent

sourceExtentOfTriangles ==
  IF wrapsXInSource_
  THEN LET extent == extendWithTriangles(createEmpty, 1, TRUE)
           right == sourceProj_.extent[3]
       IN <<IF Gt(extent[1], right) THEN Sub(extent[1], sourceWorldWidth_)
            ELSE extent[1],
            extent[2],
            IF Gt(extent[3], right) THEN Sub(extent[3], sourceWorldWidth_)
            ELSE extent[3],
            extent[4]>>
  ELSE extendWithTriangles(createEmpty, 1, FALSE)

calculateSourceExtent ==
  /\ stack = <<>>
  /\ Len(returned) < MaxExtentCalls
  /\ IF trianglesSourceExtent_ # Null
     THEN /\ returned' = Append(returned, trianglesSourceExtent_)
          /\ UNCHANGED trianglesSourceExtent_
     ELSE /\ trianglesSourceExtent_' = sourceExtentOfTriangles
          /\ returned' = Append(returned, sourceExtentOfTriangles)
  /\ UNCHANGED <<inputs, triangles_, wrapsXInSource_, heap, stack, quads,
                 origin, clipVars, rasterVars>>

Next == addQuadIfValid_ \/ calculateSourceExtent

Spec == Init /\ [][Next]_vars

(***************************************************************************)
(* triangulateQuadExtentIntersection_ on its own: a static function, here  *)
(* applied to quads and extents that no transform has to produce.          *)
(***************************************************************************)
ClipCoordinates ==
  {<<N(x), N(y)>> : x \in {1}, y \in {-1, 0, 1, 3}}
    \cup {<<N(x), N(1)>> : x \in {-1, 0, 3}}
    \cup {<<N(2), N(2)>>, <<N(3), N(3)>>, <<NaN, N(1)>>, <<PosInf, N(1)>>}

\* a square, and an extent of no width
ClipExtents == {Ext(0, 0, 2, 2), Ext(0, 0, 0, 2)}

\* no triangulation is under construction
TriangulationIdle ==
  /\ transform = "identity"
  /\ targetExtent = Ext(0, 0, 8, 8)
  /\ maxSubdivision = 0
  /\ sourceProj_ = [extent |-> Ext(0, 0, 10, 10), canWrapX |-> FALSE,
                    global |-> FALSE]
  /\ maxSourceExtent_ = Null
  /\ errorThresholdSquared_ = N(1)
  /\ triangles_ = <<>>
  /\ trianglesSourceExtent_ = Null
  /\ wrapsXInSource_ = FALSE
  /\ heap = <<>>
  /\ stack = <<>>
  /\ quads = <<>>
  /\ origin = <<>>
  /\ returned = <<>>

InitClip ==
  /\ TriangulationIdle
  /\ RasterIdle
  /\ clipQuad \in [1..4 -> ClipCoordinates]
  /\ clipExtent \in ClipExtents
  /\ vertices = <<>>
  /\ clipDone = FALSE

\* the call: the ring after the four edges
ClipQuad ==
  /\ ~clipDone
  /\ vertices' = clipRing(Vertex(1, clipQuad[1]), Vertex(2, clipQuad[2]),
                          Vertex(3, clipQuad[3]), Vertex(4, clipQuad[4]),
                          clipExtent)
  /\ clipDone' = TRUE
  /\ UNCHANGED <<triangulationVars, clipQuad, clipExtent, rasterVars>>

NextClip == ClipQuad

SpecClip == InitClip /\ [][NextClip]_vars

(***************************************************************************)
(* solveLinearSystem on its own: square systems of small exact numbers,    *)
(* and the 6 x 6 system of the affine map of three points.                 *)
(***************************************************************************)
MatrixEntries == {-1, 0, 1, 2}

AffinePoints ==
  {<<0, 0>>, <<1, 0>>, <<0, 1>>, <<2, 2>>, <<3, 1>>, <<-1, -1>>}

\* rows [x, y, 1, 0, 0, 0, u] and [0, 0, 0, x, y, 1, v] of three points
affineMatrixOf(p, u, v) ==
  <<<<p[1][1], p[1][2], N(1), N(0), N(0), N(0), u[1]>>,
    <<p[2][1], p[2][2], N(1), N(0), N(0), N(0), u[2]>>,
    <<p[3][1], p[3][2], N(1), N(0), N(0), N(0), u[3]>>,
    <<N(0), N(0), N(0), p[1][1], p[1][2], N(1), v[1]>>,
    <<N(0), N(0), N(0), p[2][1], p[2][2], N(1), v[2]>>,
    <<N(0), N(0), N(0), p[3][1], p[3][2], N(1), v[3]>>>>

\* the same of integers
affineMatrix(src, u, v) ==
  affineMatrixOf([k \in 1..3 |-> <<N(src[k][1]), N(src[k][2])>>],
                 [k \in 1..3 |-> N(u[k])], [k \in 1..3 |-> N(v[k])])

SolverMatrices ==
  {[r \in 1..2 |-> [k \in 1..3 |-> N(m[r][k])]] :
     m \in [1..2 -> [1..3 -> MatrixEntries]]}
    \cup {[r \in 1..3 |-> [k \in 1..4 |-> IF k = 4 THEN N(r) ELSE N(m[r][k])]] :
            m \in [1..3 -> [1..3 -> {0, 1}]]}
    \cup {affineMatrix(src, <<0, 4, 2>>, <<0, 1, 5>>) :
            src \in [1..3 -> AffinePoints]}

InitSolve ==
  /\ TriangulationIdle
  /\ ClipIdle
  /\ RenderIdle
  /\ TileIdle
  /\ SourceIdle
  /\ ImageIdle
  /\ CacheIdle
  /\ matrixA \in SolverMatrices
  /\ vectorX = Null
  /\ solved = FALSE

\* the call
SolveLinearSystem ==
  /\ ~solved
  /\ vectorX' = solveLinearSystem(matrixA)
  /\ solved' = TRUE
  /\ UNCHANGED <<triangulationVars, clipVars, matrixA, renderVars, tileVars,
                 sourceVars,
                 imageVars, cacheVars>>

NextSolve == SolveLinearSystem

SpecSolve == InitSolve /\ [][NextSolve]_vars

(***************************************************************************)
(* ol.reproj.renderTriangles on a canvas context.  The context is          *)
(* [saved, transform, clip, style, calls]: the stack of saved drawing      *)
(* states, the current transformation matrix <<a, b, c, d, e, f>>, the     *)
(* clipping paths in force, the stroke style and line width, and the       *)
(* history of the calls made on it.  A path is recorded as the points it   *)
(* was given, under the transformation in force.                           *)
(***************************************************************************)
MaxTriangles == 2

MaxSources == 2

IdentityTransform == <<N(1), N(0), N(0), N(1), N(0), N(0)>>

NewContext ==
  [saved |-> <<>>, transform |-> IdentityTransform, clip |-> <<>>,
   style |-> <<"", N(1)>>, calls |-> <<>>]

\* the history with one more call, made for source j of triangle i (j = 0:
\* for the triangle itself), with the transformation and clip it is made under
issue(ctx, name, args, i, j) ==
  Append(ctx.calls,
         [name |-> name, args |-> args, triangle |-> i, source |-> j,
          transform |-> ctx.transform, clip |-> ctx.clip])

contextSave(ctx, i, j) ==
  [ctx EXCEPT
     !.saved = Append(@, [transform |-> ctx.transform, clip |-> ctx.clip,
                          style |-> ctx.style]),
     !.calls = issue(ctx, "save", <<>>, i, j)]

contextRestore(ctx, i, j) ==
  IF ctx.saved = <<>> THEN [ctx EXCEPT !.calls = issue(ctx, "restore", <<>>, i, j)]
  ELSE LET top == ctx.saved[Len(ctx.saved)]
       IN [saved |-> SubSeq(ctx.saved, 1, Len(ctx.saved) - 1),
           transform |-> top.transform, clip |-> top.clip,
           style |-> top.style,
           calls |-> issue(ctx, "restore", <<>>, i, j)]

contextSetTransform(ctx, m, i, j) ==
  [ctx EXCEPT !.transform = m, !.calls = issue(ctx, "setTransform", m, i, j)]

translate(m, tx, ty) ==
  <<m[1], m[2], m[3], m[4],
    Add(Add(Mul(m[1], tx), Mul(m[3], ty)), m[5]),
    Add(Add(Mul(m[2], tx), Mul(m[4], ty)), m[6])>>

contextTranslate(ctx, tx, ty, i, j) ==
  [ctx EXCEPT !.transform = translate(@, tx, ty),
              !.calls = issue(ctx, "translate", <<tx, ty>>, i, j)]

scale(m, sx, sy) ==
  <<Mul(m[1], sx), Mul(m[2], sx), Mul(m[3], sy), Mul(m[4], sy), m[5], m[6]>>

contextScale(ctx, sx, sy, i, j) ==
  [ctx EXCEPT !.transform = scale(@, sx, sy),
              !.calls = issue(ctx, "scale", <<sx, sy>>, i, j)]

\* beginPath, moveTo, lineTo, lineTo, closePath, clip
contextClip(ctx, path, i, j) ==
  [ctx EXCEPT
     !.clip = Append(@, [path |-> path, transform |-> ctx.transform]),
     !.calls = issue(ctx, "clip", path, i, j)]

contextDrawImage(ctx, image, dx, dy, dw, dh, i, j) ==
  [ctx EXCEPT !.calls = issue(ctx, "drawImage", <<image, dx, dy, dw, dh>>, i, j)]

\* strokeStyle, lineWidth, beginPath, moveTo, lineTo, lineTo, closePath,
\* stroke
contextStroke(ctx, strokeStyle, lineWidth, path, i, j) ==
  [ctx EXCEPT !.style = <<strokeStyle, lineWidth>>,
              !.calls = issue(ctx, "stroke", path, i, j)]

shiftDistance(args) ==
  IF args.sourceExtent # Null THEN getWidth(args.sourceExtent) ELSE Null

shiftThreshold(args) ==
  IF args.sourceExtent # Null
  THEN Div(Add(args.sourceExtent[1], args.sourceExtent[3]), N(2))
  ELSE Null

\* x0, y0, x1, y1, x2, y2 as first read, x modulo shiftDistance for a
\* triangle that needs the shift
sourcePoints(args, tri) ==
  [k \in 1..3 |->
     <<IF needsShift(tri) /\ shiftDistance(args) # Null
       THEN modulo(tri.source[k][1], shiftDistance(args))
       ELSE tri.source[k][1],
       tri.source[k][2]>>]

\* srcShiftX, srcShiftY
srcShift(args, tri) == sourcePoints(args, tri)[1]

\* x0, y0, x1, y1, x2, y2 after the shift to [x0, y0]
shiftedSourcePoints(args, tri) ==
  [k \in 1..3 |->
     IF k = 1 THEN <<N(0), N(0)>>
     ELSE <<Sub(sourcePoints(args, tri)[k][1], srcShift(args, tri)[1]),
            Sub(sourcePoints(args, tri)[k][2], srcShift(args, tri)[2])>>]

\* u0, v0, u1, v1, u2, v2
targetPoints(args, tri) ==
  LET targetTL == getTopLeft(args.targetExtent)
  IN [k \in 1..3 |->
        <<Sub(tri.target[k][1], targetTL[1]),
          Neg(Sub(tri.target[k][2], targetTL[2]))>>]

augmentedMatrix(args, tri) ==
  affineMatrixOf(shiftedSourcePoints(args, tri),
                 [k \in 1..3 |-> Div(targetPoints(args, tri)[k][1],
                                     args.targetResolution)],
                 [k \in 1..3 |-> Div(targetPoints(args, tri)[k][2],
                                     args.targetResolution)])

coefsOf(args, tri) == solveLinearSystem(augmentedMatrix(args, tri))

\* the point moved away from the anchor by the increment: its distance to
\* the anchor is a square root, so the result is kept as the call
increasePointDistance(point, anchor, increment) ==
  [point |-> point, anchor |-> anchor, increment |-> increment]

\* the test for the shift of a source image, with <= for <
shiftsSourceAtThreshold(args, tri, src) ==
  /\ needsShift(tri)
  /\ shiftDistance(args) # Null
  /\ Le(getTopLeft(src.extent)[1], shiftThreshold(args))

shiftsSource(args, tri, src) ==
  /\ needsShift(tri)
  /\ shiftDistance(args) # Null
  /\ Lt(getTopLeft(src.extent)[1], shiftThreshold(args))

\* the context after the translation by shiftDistance, when it is made
shiftedBack(ctx, args, tri, src, i, j) ==
  IF shiftsSource(args, tri, src)
  THEN contextTranslate(ctx, shiftDistance(args), N(0), i, j)
  ELSE ctx

\* the body of the inner forEach for source j
drawSource(ctx, args, i, j) ==
  LET tri == args.triangles[i]
      src == args.sources[j]
      dataTL == getTopLeft(src.extent)
      c1 == contextSave(ctx, i, j)
      c2 == contextTranslate(c1, Sub(dataTL[1], srcShift(args, tri)[1]),
                             Sub(dataTL[2], srcShift(args, tri)[2]), i, j)
      c3 == shiftedBack(c2, args, tri, src, i, j)
      c4 == contextScale(c3, args.sourceResolution,
                         Neg(args.sourceResolution), i, j)
      c5 == contextDrawImage(c4, src.image, Q(-1, 2), Q(-1, 2),
                             Add(N(src.image.width), N(1)),
                             Add(N(src.image.height), N(1)), i, j)
  IN contextRestore(c5, i, j)

\* the inner forEach from source j on
RECURSIVE drawSourcesFrom(_, _, _, _)
drawSourcesFrom(ctx, args, i, j) ==
  IF j > Len(args.sources) THEN ctx
  ELSE LET c == drawSource(ctx, args, i, j)
       IN IF c = c THEN drawSourcesFrom(c, args, i, j + 1) ELSE ctx

\* the body of the outer forEach for triangle i after the solve succeeded,
\* p being x0, y0, x1, y1, x2, y2
drawTriangle(ctx, args, i, coefs, p) ==
  LET pixelSize == args.sourceResolution
      centroid == <<Div(Add(Add(p[1][1], p[2][1]), p[3][1]), N(3)),
                    Div(Add(Add(p[1][2], p[2][2]), p[3][2]), N(3))>>
      c1 == contextSetTransform(ctx, <<coefs[1], coefs[4], coefs[2],
                                       coefs[5], coefs[3], coefs[6]>>, i, 0)
      c2 == contextClip(c1, <<increasePointDistance(p[1], centroid, pixelSize),
                              increasePointDistance(p[2], centroid, pixelSize),
                              increasePointDistance(p[3], centroid, pixelSize)>>,
                        i, 0)
      c3 == drawSourcesFrom(c2, args, i, 1)
      c4 == contextStroke(c3, "black", Mul(N(2), pixelSize), p, i, 0)
  IN contextRestore(c4, i, 0)

\* the body of the outer forEach for triangle i, coefs being what the
\* solver returned
renderTriangleWith(ctx, args, i, coefs) ==
  IF coefs = Null THEN contextSave(ctx, i, 0)
  ELSE drawTriangle(contextSave(ctx, i, 0), args, i, coefs,
                    shiftedSourcePoints(args, args.triangles[i]))

\* the body of the outer forEach for triangle i
renderTriangle(ctx, args, i) ==
  renderTriangleWith(ctx, args, i, coefsOf(args, args.triangles[i]))

\* the outer forEach from triangle i on
RECURSIVE renderTrianglesFrom(_, _, _)
renderTrianglesFrom(ctx, args, i) ==
  IF i > Len(args.triangles) THEN ctx
  ELSE LET c == renderTriangle(ctx, args, i)
       IN IF c = c THEN renderTrianglesFrom(c, args, i + 1) ELSE ctx

C(x, y) == <<N(x), N(y)>>

\* the triangles of the meshes drawn: an ordinary one, one with its source
\* vertices on a line, and triangles across the world's edge, with
\* needsShift as ol.reproj.Triangulation of triangulation.js sets it
RenderTriangleSet ==
  LET target == <<C(0, 8), C(8, 8), C(0, 0)>>
  IN {[source |-> <<C(0, 0), C(4, 0), C(0, 4)>>, target |-> target],
      [source |-> <<C(0, 0), C(2, 2), C(4, 4)>>, target |-> target,
       needsShift |-> FALSE],
      [source |-> <<C(170, 10), C(-170, 10), C(170, 0)>>, target |-> target,
       needsShift |-> TRUE],
      [source |-> <<C(-170, 0), C(0, 1), C(170, 2)>>, target |-> target,
       needsShift |-> TRUE],
      [source |-> <<C(170, 0), C(-170, 1), C(-150, 2)>>, target |-> target,
       needsShift |-> TRUE]}

\* source images left of and at the middle of the source extent
RenderSourceSet ==
  {[extent |-> Ext(-180, 0, 0, 10), image |-> [width |-> 180, height |-> 10]],
   [extent |-> Ext(0, 0, 180, 10), image |-> [width |-> 180, height |-> 10]]}

SeqsUpTo(S, n) == UNION {[1..k -> S] : k \in 0..n}

InitRender ==
  /\ TriangulationIdle
  /\ ClipIdle
  /\ SolverIdle
  /\ TileIdle
  /\ SourceIdle
  /\ ImageIdle
  /\ CacheIdle
  /\ renderArgs \in
       [sourceResolution : {N(2)},
        sourceExtent : {Null, Ext(-180, -90, 180, 90), Ext(-90, -90, 270, 90)},
        targetResolution : {N(2)},
        targetExtent : {Ext(0, 0, 8, 8)},
        triangles : SeqsUpTo(RenderTriangleSet, MaxTriangles),
        sources : SeqsUpTo(RenderSourceSet, MaxSources)]
  /\ context = NewContext
  /\ triangleIndex = 0

\* an iteration of the outer forEach that returns after the solve
RenderSkipped ==
  /\ renderArgs # <<>>
  /\ triangleIndex < Len(renderArgs.triangles)
  /\ \E coefs \in {coefsOf(renderArgs, renderArgs.triangles[triangleIndex + 1])} :
       /\ coefs = Null
       /\ context' = renderTriangleWith(context, renderArgs,
                                        triangleIndex + 1, coefs)
  /\ triangleIndex' = triangleIndex + 1
  /\ UNCHANGED <<triangulationVars, clipVars, solverVars, renderArgs,
                 tileVars, sourceVars,
                 imageVars, cacheVars>>

\* an iteration of the outer forEach that runs to its end
RenderDrawn ==
  /\ renderArgs # <<>>
  /\ triangleIndex < Len(renderArgs.triangles)
  /\ \E coefs \in {coefsOf(renderArgs, renderArgs.triangles[triangleIndex + 1])} :
       /\ coefs # Null
       /\ context' = renderTriangleWith(context, renderArgs,
                                        triangleIndex + 1, coefs)
  /\ triangleIndex' = triangleIndex + 1
  /\ UNCHANGED <<triangulationVars, clipVars, solverVars, renderArgs,
                 tileVars, sourceVars,
                 imageVars, cacheVars>>

NextRender == RenderSkipped \/ RenderDrawn

SpecRender == InitRender /\ [][NextRender]_vars

(***************************************************************************)
(* ol.reproj.createTile.  A tile grid is [extent, origin, spans,           *)
(* tileSize]: spans[z + 1] is the side of a tile of level z in map units.  *)
(* Tile ranges are [minX, maxX, minY, maxY].                               *)
(***************************************************************************)
Floor(a) ==
  IF a[2] = 0 THEN a
  ELSE IF a[1] >= 0 THEN N(a[1] \div a[2])
  ELSE N(-(((-a[1]) + a[2] - 1) \div a[2]))

Ceil(a) == Neg(Floor(Neg(a)))

TileGrid(extent) ==
  [extent |-> extent, origin |-> getTopLeft(extent),
   spans |-> <<getWidth(extent), Half(getWidth(extent))>>, tileSize |-> N(4)]

getResolution(grid, z) == Div(grid.spans[z + 1], grid.tileSize)

getTileCoordExtent(grid, tileCoord) ==
  LET span == grid.spans[tileCoord[1] + 1]
      minX == Add(grid.origin[1], Mul(N(tileCoord[2]), span))
      minY == Add(grid.origin[2], Mul(N(tileCoord[3]), span))
  IN <<minX, minY, Add(minX, span), Add(minY, span)>>

getTileRangeForExtentAndZ(grid, extent, z) ==
  LET span == grid.spans[z + 1]
  IN [minX |-> Floor(Div(Sub(extent[1], grid.origin[1]), span)),
      maxX |-> Sub(Ceil(Div(Sub(extent[3], grid.origin[1]), span)), N(1)),
      minY |-> Floor(Div(Sub(extent[2], grid.origin[2]), span)),
      maxY |-> Sub(Ceil(Div(Sub(extent[4], grid.origin[2]), span)), N(1))]

getFullTileRange(grid, z) == getTileRangeForExtentAndZ(grid, grid.extent, z)

\* [[tlSrc, tlDst], [brSrc, brDst], [blSrc, blDst]] and
\* [[tlSrc, tlDst], [trSrc, trDst], [brSrc, brDst]]
triangulateExtent_(extent, kind) ==
  LET tlDst == getTopLeft(extent)
      trDst == getTopRight(extent)
      blDst == getBottomLeft(extent)
      brDst == getBottomRight(extent)
      tlSrc == transformInvOf(kind, tlDst)
      trSrc == transformInvOf(kind, trDst)
      blSrc == transformInvOf(kind, blDst)
      brSrc == transformInvOf(kind, brDst)
  IN <<<<<<tlSrc, tlDst>>, <<brSrc, brDst>>, <<blSrc, blDst>>>>,
       <<<<tlSrc, tlDst>>, <<trSrc, trDst>>, <<brSrc, brDst>>>>>>

\* the extent of the second coordinate of every vertex, not the first
calcSourceExtentOfTargets_(tris) ==
  LET ext[i \in 0..Len(tris)] ==
        IF i = 0 THEN createEmpty
        ELSE extendCoordinate(
               extendCoordinate(
                 extendCoordinate(ext[i - 1], tris[i][1][2]),
                 tris[i][2][2]),
               tris[i][3][2])
  IN ext[Len(tris)]

calcSourceExtent_(tris) ==
  LET ext[i \in 0..Len(tris)] ==
        IF i = 0 THEN createEmpty
        ELSE extendCoordinate(
               extendCoordinate(
                 extendCoordinate(ext[i - 1], tris[i][1][1]),
                 tris[i][2][1]),
               tris[i][3][1])
  IN ext[Len(tris)]

\* transform(a, b, c, d, e, f) on the matrix m
transformBy(m, n) ==
  <<Add(Mul(m[1], n[1]), Mul(m[3], n[2])),
    Add(Mul(m[2], n[1]), Mul(m[4], n[2])),
    Add(Mul(m[1], n[3]), Mul(m[3], n[4])),
    Add(Mul(m[2], n[3]), Mul(m[4], n[4])),
    Add(Add(Mul(m[1], n[5]), Mul(m[3], n[6])), m[5]),
    Add(Add(Mul(m[2], n[5]), Mul(m[4], n[6])), m[6])>>

contextTransform(ctx, n, i, j) ==
  [ctx EXCEPT !.transform = transformBy(@, n),
              !.calls = issue(ctx, "transform", n, i, j)]

\* fillStyle, fillRect
contextFillRect(ctx, fillStyle, x, y, w, h) ==
  [ctx EXCEPT !.calls = issue(ctx, "fillRect", <<fillStyle, x, y, w, h>>, 0, 0)]

\* the body of the inner forEach of renderTriangles_ for source j
drawSource_(ctx, sourceResolution, sources, i, j) ==
  LET tlSrcFromData == getTopLeft(sources[j].extent)
      c1 == contextSave(ctx, i, j)
      c2 == contextTranslate(c1, tlSrcFromData[1], tlSrcFromData[2], i, j)
      c3 == contextScale(c2, sourceResolution, Neg(sourceResolution), i, j)
      c4 == contextDrawImage(c3, sources[j].image, N(0), N(0), Null, Null,
                             i, j)
  IN contextRestore(c4, i, j)

RECURSIVE drawSourcesFrom_(_, _, _, _, _)
drawSourcesFrom_(ctx, sourceResolution, sources, i, j) ==
  IF j > Len(sources) THEN ctx
  ELSE LET c == drawSource_(ctx, sourceResolution, sources, i, j)
       IN IF c = c
          THEN drawSourcesFrom_(c, sourceResolution, sources, i, j + 1)
          ELSE ctx

\* the body of the forEach of renderTriangles_ for triangle i after the
\* solve
drawTriangle_(ctx, srcRes, targetRes, triangle, sources, i, coefs) ==
  LET path == <<triangle[1][1], triangle[2][1], triangle[3][1]>>
      c0 == contextSave(ctx, i, 0)
      c1 == contextScale(c0, N(1), N(-1), i, 0)
      c2 == contextScale(c1, Recip(targetRes), Recip(targetRes), i, 0)
      c3 == contextTranslate(c2, Neg(triangle[1][2][1]),
                             Neg(triangle[1][2][2]), i, 0)
      c4 == contextTransform(c3, <<coefs[1], coefs[4], coefs[2], coefs[5],
                                   coefs[3], coefs[6]>>, i, 0)
      c5 == contextClip(contextSave(c4, i, 0), path, i, 0)
      c6 == contextRestore(drawSourcesFrom_(c5, srcRes, sources, i, 1), i, 0)
      c7 == contextStroke(c6, "black", N(4000), path, i, 0)
  IN IF coefs = Null THEN contextSave(ctx, i, 0) ELSE contextRestore(c7, i, 0)

\* the body of the forEach of renderTriangles_ for triangle i
renderTriangle_(ctx, sourceResolution, targetResolution, tris, sources, i) ==
  drawTriangle_(ctx, sourceResolution, targetResolution, tris[i], sources, i,
                solveLinearSystem(
                  affineMatrixOf(<<tris[i][1][1], tris[i][2][1],
                                   tris[i][3][1]>>,
                                 [k \in 1..3 |-> tris[i][k][2][1]],
                                 [k \in 1..3 |-> tris[i][k][2][2]])))

RECURSIVE renderTrianglesFrom_(_, _, _, _, _, _)
renderTrianglesFrom_(ctx, srcRes, targetRes, tris, sources, i) ==
  IF i > Len(tris) THEN ctx
  ELSE LET c == renderTriangle_(ctx, srcRes, targetRes, tris, sources, i)
       IN IF c = c
          THEN renderTrianglesFrom_(c, srcRes, targetRes, tris, sources, i + 1)
          ELSE ctx

renderTriangles_(ctx, sourceResolution, targetResolution, tris, sources) ==
  renderTrianglesFrom_(ctx, sourceResolution, targetResolution, tris,
                       sources, 1)

\* what getTileFunction returns for a tile coordinate: a tile in the state
\* the getter of the arguments gives it, or nothing
getTileFunction(args, z, x, y) ==
  [tileCoord |-> <<z, x, y>>, state |-> args.getTile[((x + y) % 2) + 1],
   listening |-> FALSE]

\* srcRange after the clamping to srcFullRange
clampedRange(srcRange, srcFullRange) ==
  [minX |-> MathMax(srcRange.minX, srcFullRange.minX),
   maxX |-> MathMin(srcRange.maxX, srcFullRange.maxX),
   minY |-> MathMax(srcRange.minY, srcFullRange.minY),
   maxY |-> MathMin(srcRange.maxY, srcFullRange.maxY)]

\* the values a loop variable of the two for loops takes
loopValues(min, max) ==
  IF isFiniteNumber(min) /\ isFiniteNumber(max) THEN min[1]..max[1] ELSE {}

\* the tile coordinates the two for loops visit, in their order
loopCoords(srcRange, srcZ) ==
  LET xs == loopValues(srcRange.minX, srcRange.maxX)
      ys == loopValues(srcRange.minY, srcRange.maxY)
      ny == Cardinality(ys)
  IN [k \in 1..(Cardinality(xs) * ny) |->
        <<srcZ, srcRange.minX[1] + ((k - 1) \div ny),
          srcRange.minY[1] + ((k - 1) % ny)>>]

targetExtentOf(args) ==
  getTileCoordExtent(args.targetTileGrid, <<args.z, args.x, args.y>>)

trianglesOf(args) ==
  triangulateExtent_(targetExtentOf(args), args.transformInv)

srcExtentOf(args) == calcSourceExtent_(trianglesOf(args))

\* the test before the first return
outsideSourceTileGrid(args, srcExtent) ==
  ~intersects(args.sourceTileGrid.extent, srcExtent)

\* the calls of getTileFunction
tileCoordsOf(args, srcExtent) ==
  loopCoords(clampedRange(getTileRangeForExtentAndZ(args.sourceTileGrid,
                                                    srcExtent, args.srcZ),
                          getFullTileRange(args.sourceTileGrid, args.srcZ)),
             args.srcZ)

\* srcTiles after the loops over the tile coordinates
collectedTiles(args, coords) ==
  SelectSeq([k \in 1..Len(coords) |->
               getTileFunction(args, coords[k][1], coords[k][2],
                               coords[k][3])],
            LAMBDA tile : tile.state # "NULL")

ReprojectedTile(tileCoord, state) ==
  [tileCoord |-> tileCoord, state |-> state, canvas_ |-> Null]

\* the tile after reproject() has run with the source tiles as they are
reproject(args, tile, tiles) ==
  LET loaded == SelectSeq(tiles, LAMBDA s : s.state = "LOADED")
      sources == [k \in 1..Len(loaded) |->
                    [extent |-> getTileCoordExtent(args.sourceTileGrid,
                                                   loaded[k].tileCoord),
                     image |-> loaded[k].tileCoord]]
      size == args.targetTileGrid.tileSize
      filled == contextFillRect(NewContext,
                                IF Len(sources) = 0 THEN "rgba(255,0,0,.8)"
                                ELSE IF Len(sources) = 1
                                THEN "rgba(0,255,0,.3)"
                                ELSE "rgba(0,0,255,.1)",
                                N(0), N(0), size, size)
      drawn == IF Len(sources) > 0
               THEN renderTriangles_(
                      filled,
                      getResolution(args.sourceTileGrid, args.srcZ),
                      getResolution(args.targetTileGrid, args.z),
                      trianglesOf(args), sources)
               ELSE filled
  IN [tile EXCEPT !.canvas_ = drawn, !.state = "LOADED"]

TileTransformKinds == {"identity", "scale", "shift", "pole"}

TileGrids == {TileGrid(Ext(-8, -8, 8, 8)), TileGrid(Ext(0, 0, 8, 8))}

\* what the getter gives for tile coordinates of even and of odd x + y
TileGetters ==
  {<<"NULL", "NULL">>, <<"IDLE", "NULL">>, <<"LOADED", "LOADED">>,
   <<"LOADING", "LOADED">>, <<"ERROR", "IDLE">>}

InitTile ==
  /\ TriangulationIdle
  /\ ClipIdle
  /\ SolverIdle
  /\ RenderIdle
  /\ SourceIdle
  /\ ImageIdle
  /\ CacheIdle
  /\ tileArgs \in
       [transformInv : TileTransformKinds,
        sourceTileGrid : TileGrids,
        targetTileGrid : TileGrids,
        z : 0..1, x : -1..1, y : -2..0,
        srcZ : 0..1,
        getTile : TileGetters]
  /\ dstImage = <<>>
  /\ srcTiles = <<>>
  /\ getTileCalls = <<>>
  /\ leftToLoad = 0
  /\ reprojections = <<>>

\* the closure state of createTile: srcTiles, leftToLoad, and the runs of
\* reproject() so far, each with the source tile states it found
Closure(tiles, left, runs) == [tiles |-> tiles, left |-> left, runs |-> runs]

\* reproject() run in the closure
reprojected(st) ==
  Closure(st.tiles, st.left,
          Append(st.runs, [k \in 1..Len(st.tiles) |-> st.tiles[k].state]))

\* onTileLoaded with the test leftToLoad < 0
onTileLoadedBelowZero(st) ==
  IF st.left - 1 < 0
  THEN reprojected(Closure(st.tiles, st.left - 1, st.runs))
  ELSE Closure(st.tiles, st.left - 1, st.runs)

onTileLoaded(st) ==
  IF st.left - 1 <= 0
  THEN reprojected(Closure(st.tiles, st.left - 1, st.runs))
  ELSE Closure(st.tiles, st.left - 1, st.runs)

\* the change listener of source tile k when the tile has reached state:
\* onTileLoaded, then unlisten
tileChanged(st, k, state) ==
  onTileLoaded(Closure([st.tiles EXCEPT ![k].state = state,
                                        ![k].listening = FALSE],
                       st.left, st.runs))

\* what tile.load() has come to when it returns, for each source tile: the
\* tile is LOADING, or it has loaded or failed before load() returned
LoadOutcomes(tiles) ==
  {o \in [1..Len(tiles) -> {"LOADING", "LOADED", "ERROR"}] :
     \A k \in 1..Len(tiles) : tiles[k].state # "IDLE" => o[k] = "LOADING"}

\* the body of the forEach that listens and loads, for source tile k
registerTile(st, k, outcome) ==
  IF st.tiles[k].state \notin {"IDLE", "LOADING"} THEN st
  ELSE IF st.tiles[k].state = "IDLE" /\ outcome # "LOADING"
  THEN tileChanged(Closure(st.tiles, st.left + 1, st.runs), k, outcome)
  ELSE Closure([st.tiles EXCEPT ![k].state = "LOADING",
                                ![k].listening = TRUE],
               st.left + 1, st.runs)

\* the forEach from source tile k on
RECURSIVE registerFrom(_, _, _)
registerFrom(st, k, outcomes) ==
  IF k > Len(st.tiles) THEN st
  ELSE registerFrom(registerTile(st, k, outcomes[k]), k + 1, outcomes)

\* the end of createTile: reproject() if no source tile is left to load
afterRegistration(st) == IF st.left = 0 THEN reprojected(st) ELSE st

\* createTile from the making of dstImage to its return
registered(tiles, outcomes) ==
  afterRegistration(registerFrom(Closure(tiles, 0, <<>>), 1, outcomes))

\* the source tiles as the latest run of reproject() found them
tilesAtLatest(tiles, runs) ==
  [k \in 1..Len(tiles) |-> [tiles[k] EXCEPT !.state = runs[Len(runs)][k]]]

\* createTile returning at the test of the source extent
CreateTileOutsideSource ==
  /\ tileArgs # <<>>
  /\ dstImage = <<>>
  /\ outsideSourceTileGrid(tileArgs, srcExtentOf(tileArgs))
  /\ dstImage' = ReprojectedTile(<<tileArgs.z, tileArgs.x, tileArgs.y>>, "EMPTY")
  /\ UNCHANGED <<triangulationVars, clipVars, solverVars, renderVars,
                 tileArgs, srcTiles, getTileCalls, leftToLoad, reprojections,
                 sourceVars,
                 imageVars, cacheVars>>

\* createTile returning because the getter gave no tile
CreateTileNoSourceTiles ==
  /\ tileArgs # <<>>
  /\ dstImage = <<>>
  /\ \E srcExtent \in {srcExtentOf(tileArgs)} :
     \E coords \in {tileCoordsOf(tileArgs, srcExtent)} :
     \E tiles \in {collectedTiles(tileArgs, coords)} :
       /\ ~outsideSourceTileGrid(tileArgs, srcExtent)
       /\ tiles = <<>>
       /\ getTileCalls' = coords
  /\ dstImage' = ReprojectedTile(<<tileArgs.z, tileArgs.x, tileArgs.y>>, "EMPTY")
  /\ UNCHANGED <<triangulationVars, clipVars, solverVars, renderVars,
                 tileArgs, srcTiles, leftToLoad, reprojections, sourceVars,
                 imageVars, cacheVars>>

\* createTile returning a tile that waits for source tiles: reproject()
\* has not run
CreateTileLoading ==
  /\ tileArgs # <<>>
  /\ dstImage = <<>>
  /\ \E srcExtent \in {srcExtentOf(tileArgs)} :
     \E coords \in {tileCoordsOf(tileArgs, srcExtent)} :
     \E tiles \in {collectedTiles(tileArgs, coords)} :
     \E outcomes \in LoadOutcomes(tiles) :
     \E st \in {registered(tiles, outcomes)} :
       /\ ~outsideSourceTileGrid(tileArgs, srcExtent)
       /\ tiles # <<>>
       /\ st.runs = <<>>
       /\ getTileCalls' = coords
       /\ srcTiles' = st.tiles
       /\ leftToLoad' = st.left
       /\ reprojections' = st.runs
  /\ dstImage' = ReprojectedTile(<<tileArgs.z, tileArgs.x, tileArgs.y>>,
                                 "LOADING")
  /\ UNCHANGED <<triangulationVars, clipVars, solverVars, renderVars,
                 tileArgs, sourceVars,
                 imageVars, cacheVars>>

\* createTile returning a tile it has reprojected, in the forEach or after
\* it: the tile has the canvas of the latest run
CreateTileReprojected ==
  /\ tileArgs # <<>>
  /\ dstImage = <<>>
  /\ \E srcExtent \in {srcExtentOf(tileArgs)} :
     \E coords \in {tileCoordsOf(tileArgs, srcExtent)} :
     \E tiles \in {collectedTiles(tileArgs, coords)} :
     \E outcomes \in LoadOutcomes(tiles) :
     \E st \in {registered(tiles, outcomes)} :
       /\ ~outsideSourceTileGrid(tileArgs, srcExtent)
       /\ tiles # <<>>
       /\ st.runs # <<>>
       /\ getTileCalls' = coords
       /\ srcTiles' = st.tiles
       /\ leftToLoad' = st.left
       /\ reprojections' = st.runs
       /\ dstImage' =
            reproject(tileArgs,
                      ReprojectedTile(<<tileArgs.z, tileArgs.x, tileArgs.y>>,
                                      "LOADING"),
                      tilesAtLatest(st.tiles, st.runs))
  /\ UNCHANGED <<triangulationVars, clipVars, solverVars, renderVars,
                 tileArgs, sourceVars,
                 imageVars, cacheVars>>

\* a change event of source tile k that has loaded, failed or come out
\* empty, while createTile's listener is on it
SourceTileChange ==
  /\ tileArgs # <<>>
  /\ \E k \in 1..Len(srcTiles) : \E state \in {"LOADED", "ERROR", "EMPTY"} :
     \E st \in {tileChanged(Closure(srcTiles, leftToLoad, reprojections),
                            k, state)} :
       /\ srcTiles[k].state = "LOADING"
       /\ srcTiles[k].listening
       /\ srcTiles' = st.tiles
       /\ leftToLoad' = st.left
       /\ reprojections' = st.runs
       /\ dstImage' = IF st.runs # reprojections
                      THEN reproject(tileArgs, dstImage, st.tiles)
                      ELSE dstImage
  /\ UNCHANGED <<triangulationVars, clipVars, solverVars, renderVars,
                 tileArgs, getTileCalls, sourceVars,
                 imageVars, cacheVars>>

NextTile ==
  \/ CreateTileOutsideSource
  \/ CreateTileNoSourceTiles
  \/ CreateTileLoading
  \/ CreateTileReprojected
  \/ SourceTileChange

SpecTile == InitTile /\ [][NextTile]_vars

\* createTile's listener is on a source tile that is loading
sourceTilePending ==
  \E k \in 1..Len(srcTiles) :
    srcTiles[k].state = "LOADING" /\ srcTiles[k].listening

\* A source tile that is loading comes to an end and its change event is
\* delivered: weak fairness of SourceTileChange, that is
\* WF_vars(SourceTileChange) with its ENABLED written out.
LiveSpecTile ==
  SpecTile /\ ([]<>(~sourceTilePending) \/ []<><<SourceTileChange>>_vars)

(***************************************************************************)
(* ol.reproj.createImage and ol.ImageReprojected.  The source image is a   *)
(* record of its extent, resolution and state, with whether the listenOnce *)
(* listener of createImage is on it; changeEvents is the history of the    *)
(* states the source image had at its change events.                       *)
(***************************************************************************)
MaxChanges == 3

\* the constructor of ol.ImageReprojected
ImageReprojected(extent, resolution) ==
  [extent |-> extent, resolution |-> resolution, state |-> "LOADING",
   canvas_ |-> Null]

setImage(image, canvas) == [image EXCEPT !.canvas_ = canvas, !.state = "LOADED"]

\* what getImageFunction returns: an image in the state the getter of the
\* arguments gives it, or nothing
getImageFunction(args, srcExtent) ==
  [extent |-> srcExtent, resolution |-> args.sourceResolution,
   state |-> args.getImage, listening |-> FALSE]

imageTrianglesOf(args) ==
  triangulateExtent_(args.targetExtent, args.transformInv)

\* the image after reproject() of createImage has run
reprojectImage(args, src, image) ==
  LET dstWidth == Add(Div(getWidth(args.targetExtent), args.targetResolution),
                      N(1))
      dstHeight == Add(Div(getHeight(args.targetExtent),
                           args.targetResolution), N(1))
      filled == contextFillRect(NewContext, "rgba(255,0,0,0.1)", N(0), N(0),
                                dstWidth, dstHeight)
  IN setImage(image,
              renderTriangles_(filled, src.resolution, args.targetResolution,
                               imageTrianglesOf(args),
                               <<[extent |-> src.extent, image |-> "srcImage"]>>))

\* a change event of the source image: the listenOnce listener, if it is
\* still on, is taken off and run
imageChanged(args, src, image) ==
  IF src.listening
  THEN [src |-> [src EXCEPT !.listening = FALSE],
        image |-> IF src.state = "LOADED"
                  THEN reprojectImage(args, src, image) ELSE image]
  ELSE [src |-> src, image |-> image]

\* what load() does to a source image before it returns: nothing, or, for
\* an image that is IDLE, the change to LOADING with its change event
LoadOutcomes_(src) ==
  IF src.state = "IDLE" THEN {"IDLE", "LOADING"} ELSE {src.state}

InitImage ==
  /\ TriangulationIdle
  /\ ClipIdle
  /\ SolverIdle
  /\ RenderIdle
  /\ TileIdle
  /\ SourceIdle
  /\ CacheIdle
  /\ imageArgs \in
       [transformInv : TileTransformKinds,
        targetExtent : {Ext(0, 0, 8, 8), Ext(-8, -8, 8, 8)},
        targetResolution : {N(2)},
        sourceResolution : {N(1), N(2)},
        getImage : {"NULL", "IDLE", "LOADING", "LOADED", "ERROR"}]
  /\ srcImage = <<>>
  /\ reprojectedImage = <<>>
  /\ changeEvents = <<>>

\* createImage returning null because the getter gave no image
CreateImageNull ==
  /\ imageArgs # <<>>
  /\ srcImage = <<>>
  /\ imageArgs.getImage = "NULL"
  /\ srcImage' = getImageFunction(imageArgs,
                                  calcSourceExtent_(imageTrianglesOf(imageArgs)))
  /\ reprojectedImage' = Null
  /\ UNCHANGED <<triangulationVars, clipVars, solverVars, renderVars,
                 tileVars, sourceVars, cacheVars, imageArgs, changeEvents>>

\* createImage on a source image that is LOADED or ERROR: reproject() runs
\* before it returns
CreateImageReprojected ==
  /\ imageArgs # <<>>
  /\ srcImage = <<>>
  /\ imageArgs.getImage \in {"LOADED", "ERROR"}
  /\ \E src \in {getImageFunction(
                   imageArgs,
                   calcSourceExtent_(imageTrianglesOf(imageArgs)))} :
       /\ srcImage' = src
       /\ reprojectedImage' =
            reprojectImage(imageArgs, src,
                           ImageReprojected(imageArgs.targetExtent,
                                            imageArgs.targetResolution))
  /\ UNCHANGED <<triangulationVars, clipVars, solverVars, renderVars,
                 tileVars, sourceVars, cacheVars, imageArgs, changeEvents>>

\* createImage on a source image in another state: listenOnce, then load()
CreateImageListening ==
  /\ imageArgs # <<>>
  /\ srcImage = <<>>
  /\ imageArgs.getImage \in {"IDLE", "LOADING"}
  /\ \E src \in {getImageFunction(
                   imageArgs,
                   calcSourceExtent_(imageTrianglesOf(imageArgs)))} :
     \E outcome \in LoadOutcomes_(src) :
     \E st \in {IF outcome = src.state
                THEN [src |-> [src EXCEPT !.listening = TRUE],
                      image |-> ImageReprojected(imageArgs.targetExtent,
                                                 imageArgs.targetResolution)]
                ELSE imageChanged(
                       imageArgs,
                       [src EXCEPT !.listening = TRUE, !.state = outcome],
                       ImageReprojected(imageArgs.targetExtent,
                                        imageArgs.targetResolution))} :
       /\ srcImage' = st.src
       /\ reprojectedImage' = st.image
       /\ changeEvents' = IF outcome = src.state THEN <<>> ELSE <<outcome>>
  /\ UNCHANGED <<triangulationVars, clipVars, solverVars, renderVars,
                 tileVars, sourceVars, cacheVars, imageArgs>>

\* a change event of the source image after createImage has returned: the
\* image goes on loading, has loaded or has failed
SourceImageChange ==
  /\ imageArgs # <<>>
  /\ srcImage # <<>>
  /\ Len(changeEvents) < MaxChanges
  /\ srcImage.state \in {"IDLE", "LOADING"}
  /\ \E state \in {"LOADING", "LOADED", "ERROR"} :
     \E st \in {imageChanged(imageArgs, [srcImage EXCEPT !.state = state],
                             reprojectedImage)} :
       /\ srcImage' = st.src
       /\ reprojectedImage' = st.image
       /\ changeEvents' = Append(changeEvents, state)
  /\ UNCHANGED <<triangulationVars, clipVars, solverVars, renderVars,
                 tileVars, sourceVars, cacheVars, imageArgs>>

NextImage ==
  \/ CreateImageNull
  \/ CreateImageReprojected
  \/ CreateImageListening
  \/ SourceImageChange

SpecImage == InitImage /\ [][NextImage]_vars

\* a change event of the source image, as changeEvents records it
ImageEvent ==
  /\ imageArgs # <<>>
  /\ srcImage # <<>>
  /\ Len(changeEvents) < MaxChanges
  /\ srcImage.state \in {"IDLE", "LOADING"}
  /\ \E state \in {"LOADING", "LOADED", "ERROR"} :
       changeEvents' = Append(changeEvents, state)

\* a source image that is IDLE or LOADING gets its next change event
LiveSpecImage == SpecImage /\ WF_changeEvents(ImageEvent)

(***************************************************************************)
(* ol.source.TileImage: the tile grids by projection.  A projection is its *)
(* uid; a tile grid is <<kind, n>>: the grid of the options <<"own", 0>>,  *)
(* the default grid of projection p <<"default", p>>, a grid made by the   *)
(* caller <<"made", n>>, and <<"none", 0>> for no grid.                    *)
(***************************************************************************)
MaxRetrieved == 2

\* EPSG:3857, EPSG:900913 and EPSG:4326
Projections == 1..3

NoGrid == <<"none", 0>>

MadeGrids == {<<"made", 1>>, <<"made", 2>>}

\* ol.proj.equivalent: EPSG:900913 is another name of EPSG:3857
equivalent(projection1, projection2) ==
  \/ projection1 = projection2
  \/ {projection1, projection2} = {1, 2}

\* ol.tilegrid.getForProjection: the default grid the projection keeps
getForProjection(projection) == <<"default", projection>>

\* goog.getUid(projection).toString()
projKeyOf(projection) == projection

\* the first branch: the grid of the source itself
returnsOwnTileGrid(options, projection) ==
  /\ options.tileGrid # NoGrid
  /\ equivalent(options.projection, projection)

\* the grid kept under the key, with no look at what is kept
storedOrDefaultAnew(grids, projection) == getForProjection(projection)

\* the grid kept under the key, a default grid when there is none
storedOrDefault(grids, projection) ==
  IF grids[projKeyOf(projection)] = NoGrid
  THEN getForProjection(projection)
  ELSE grids[projKeyOf(projection)]

InitSource ==
  /\ TriangulationIdle
  /\ ClipIdle
  /\ SolverIdle
  /\ RenderIdle
  /\ TileIdle
  /\ ImageIdle
  /\ CacheIdle
  /\ sourceOptions \in [projection : Projections,
                        tileGrid : {NoGrid, <<"own", 0>>}]
  /\ tileGridForProjection = [key \in Projections |-> NoGrid]
  /\ gridSet = [key \in Projections |-> NoGrid]
  /\ retrieved = <<>>

\* setTileGridForProjection(projection, tilegrid)
setTileGridForProjection ==
  /\ sourceOptions # <<>>
  /\ \E projection \in Projections : \E tilegrid \in MadeGrids :
       /\ tileGridForProjection' =
            [tileGridForProjection EXCEPT ![projKeyOf(projection)] = tilegrid]
       /\ gridSet' = [gridSet EXCEPT ![projection] = tilegrid]
  /\ UNCHANGED <<triangulationVars, clipVars, solverVars, renderVars,
                 tileVars, sourceOptions, retrieved,
                 imageVars, cacheVars>>

\* getTileGridForProjection returning the grid of the source
GetOwnTileGrid ==
  /\ sourceOptions # <<>>
  /\ Len(retrieved) < MaxRetrieved
  /\ \E projection \in Projections :
       /\ returnsOwnTileGrid(sourceOptions, projection)
       /\ retrieved' = Append(retrieved,
                              [projection |-> projection,
                               grid |-> sourceOptions.tileGrid,
                               set |-> gridSet[projection]])
  /\ UNCHANGED <<triangulationVars, clipVars, solverVars, renderVars,
                 tileVars, sourceOptions, tileGridForProjection, gridSet,
                 imageVars, cacheVars>>

\* getTileGridForProjection returning the grid kept under the key
GetKeptTileGrid ==
  /\ sourceOptions # <<>>
  /\ Len(retrieved) < MaxRetrieved
  /\ \E projection \in Projections :
       /\ ~returnsOwnTileGrid(sourceOptions, projection)
       /\ tileGridForProjection' =
            [tileGridForProjection EXCEPT
               ![projKeyOf(projection)] =
                  storedOrDefault(tileGridForProjection, projection)]
       /\ retrieved' = Append(retrieved,
                              [projection |-> projection,
                               grid |-> tileGridForProjection'[
                                          projKeyOf(projection)],
                               set |-> gridSet[projection]])
  /\ UNCHANGED <<triangulationVars, clipVars, solverVars, renderVars,
                 tileVars, sourceOptions, gridSet,
                 imageVars, cacheVars>>

NextSource == setTileGridForProjection \/ GetOwnTileGrid \/ GetKeptTileGrid

SpecSource == InitSource /\ [][NextSource]_vars

(***************************************************************************)
(* ol.source.TileImage: getTile and the tile caches.  A tile cache is a    *)
(* function from the tile keys to the tile kept under the key, NoTile for  *)
(* none; tileCacheForProjection is a function from the projection keys to  *)
(* the cache kept under the key, NoCache for none.  A tile is a record     *)
(* with the number of its construction as its identity.                    *)
(***************************************************************************)
MaxSourceCalls == 4

\* the projection argument or the projection of a source that has none
NoProjection == 0

NoTile == <<>>

NoCache == <<>>

\* getKeyZXY
getKeyZXY(z, x, y) == <<z, "/", x, "/", y>>

TileCoords == {<<0, 0, 0>>, <<0, 1, 0>>}

TileKeys == {getKeyZXY(c[1], c[2], c[3]) : c \in TileCoords}

\* new ol.TileCache()
EmptyCache == [key \in TileKeys |-> NoTile]

containsKey(cache, key) == cache[key] # NoTile

\* ol.TileUrlFunction.nullTileUrlFunction, and the tile URL of the others
nullTileUrlFunction == 0

\* ol.source.TileImage.defaultTileLoadFunction
defaultTileLoadFunction == 0

tileUrlOf(functions, tileCoord) ==
  IF functions.tileUrlFunction = nullTileUrlFunction THEN Null
  ELSE <<functions.tileUrlFunction, tileCoord>>

\* new this.tileClass(tileCoord, state, src, crossOrigin, tileLoadFunction)
ImageTile(id, tileCoord, tileUrl, tileLoadFunction) ==
  [id |-> id, class |-> "ol.ImageTile", tileCoord |-> tileCoord,
   state |-> IF tileUrl # Null THEN "IDLE" ELSE "EMPTY",
   src |-> IF tileUrl # Null THEN tileUrl ELSE <<>>,
   projection |-> NoProjection,
   tileLoadFunction |-> tileLoadFunction]

\* new ol.reproj.Tile(...), with the source tiles its getTileFunction gave
ReprojTile(id, tileCoord, projection, sourceTileGrid, targetTileGrid) ==
  [id |-> id, class |-> "ol.reproj.Tile", tileCoord |-> tileCoord,
   state |-> "IDLE",
   src |-> <<sourceTileGrid, targetTileGrid>>,
   projection |-> projection,
   tileLoadFunction |-> <<>>]

\* the source as getTile works on it
Source(cache, caches, grids, count) ==
  [tileCache |-> cache, tileCacheForProjection |-> caches,
   tileGridForProjection |-> grids, tileCount |-> count]

\* getTileInternal: the source after the call; the tile it returns is
\* the one under the key
getTileInternal(src, functions, tileCoord) ==
  LET tileCoordKey == getKeyZXY(tileCoord[1], tileCoord[2], tileCoord[3])
  IN IF containsKey(src.tileCache, tileCoordKey) THEN src
     ELSE [src EXCEPT
             !.tileCache[tileCoordKey] =
                ImageTile(src.tileCount + 1, tileCoord,
                          tileUrlOf(functions, tileCoord),
                          functions.tileLoadFunction),
             !.tileCount = src.tileCount + 1]

\* the calls of the getTileFunction bound in getTile that the constructor
\* of ol.reproj.Tile makes, one for each of the tile coordinates
RECURSIVE getSourceTiles(_, _, _)
getSourceTiles(src, functions, coords) ==
  IF coords = <<>> THEN src
  ELSE getSourceTiles(getTileInternal(src, functions, Head(coords)),
                      functions, Tail(coords))

\* the source tiles the constructor of ol.reproj.Tile may ask for
SourceTileCoords == {<<>>, <<<<0, 1, 0>>, <<0, 0, 0>>>>}

\* tileCacheForProjection after getTileCacheForProjection with a cache
\* made anew whatever is kept under the key
getTileCacheForProjectionAnew(caches, projection) ==
  [caches EXCEPT ![projKeyOf(projection)] = EmptyCache]

\* tileCacheForProjection after getTileCacheForProjection(projection), for
\* a projection not equivalent to the projection of the source; the cache
\* returned is the one under the key
getTileCacheForProjection(caches, projection) ==
  IF caches[projKeyOf(projection)] = NoCache
  THEN [caches EXCEPT ![projKeyOf(projection)] = EmptyCache]
  ELSE caches

\* tileGridForProjection after getTileGridForProjection(projection)
gridsAfterGet(options, grids, projection) ==
  IF returnsOwnTileGrid(options, projection) THEN grids
  ELSE [grids EXCEPT ![projKeyOf(projection)] =
                        storedOrDefault(grids, projection)]

\* what getTileGridForProjection(projection) returns
gridOf(options, grids, projection) ==
  IF returnsOwnTileGrid(options, projection) THEN options.tileGrid
  ELSE storedOrDefault(grids, projection)

\* the first test of getTile
getsTileInternal(options, projection) ==
  \/ options.projection = NoProjection
  \/ projection = NoProjection
  \/ equivalent(options.projection, projection)

\* the entry of the history for a getTile call
TileCall(tileCoord, projection, tile, count) ==
  [name |-> "getTile", tileCoord |-> tileCoord, projection |-> projection,
   tile |-> tile, constructed |-> tile.id > count, tileCount |-> count]

\* the entry of the history for a call of a setter
SetterCall(name, count) ==
  [name |-> name, tileCoord |-> <<>>, projection |-> NoProjection,
   tile |-> NoTile, constructed |-> FALSE, tileCount |-> count]

InitCache ==
  /\ TriangulationIdle
  /\ ClipIdle
  /\ SolverIdle
  /\ RenderIdle
  /\ TileIdle
  /\ ImageIdle
  /\ sourceOptions \in [projection : Projections \cup {NoProjection},
                        tileGrid : {NoGrid, <<"own", 0>>}]
  /\ tileGridForProjection = [key \in Projections |-> NoGrid]
  /\ gridSet = [key \in Projections |-> NoGrid]
  /\ retrieved = <<>>
  /\ tileCache = EmptyCache
  /\ tileCacheForProjection = [key \in Projections |-> NoCache]
  /\ tileFunctions = [tileUrlFunction |-> nullTileUrlFunction,
                      tileLoadFunction |-> defaultTileLoadFunction]
  /\ tileCount = 0
  /\ sourceCalls = <<>>

\* getTile answered by getTileInternal
GetTileInternal ==
  /\ tileFunctions # <<>>
  /\ Len(sourceCalls) < MaxSourceCalls
  /\ \E tileCoord \in TileCoords : \E projection \in Projections :
     \E src \in {getTileInternal(
                   Source(tileCache, tileCacheForProjection,
                          tileGridForProjection, tileCount),
                   tileFunctions, tileCoord)} :
       /\ getsTileInternal(sourceOptions, projection)
       /\ tileCache' = src.tileCache
       /\ tileCount' = src.tileCount
       /\ sourceCalls' =
            Append(sourceCalls,
                   TileCall(tileCoord, projection,
                            src.tileCache[getKeyZXY(tileCoord[1], tileCoord[2],
                                                    tileCoord[3])],
                            tileCount))
  /\ UNCHANGED <<triangulationVars, clipVars, solverVars, renderVars,
                 tileVars, sourceVars, imageVars, tileCacheForProjection,
                 tileFunctions>>

\* getTile answered from the cache of the projection
GetTileCached ==
  /\ tileFunctions # <<>>
  /\ Len(sourceCalls) < MaxSourceCalls
  /\ \E tileCoord \in TileCoords : \E projection \in Projections :
     \E caches \in {getTileCacheForProjection(tileCacheForProjection,
                                              projection)} :
     \E tileCoordKey \in {getKeyZXY(tileCoord[1], tileCoord[2],
                                    tileCoord[3])} :
       /\ ~getsTileInternal(sourceOptions, projection)
       /\ containsKey(caches[projKeyOf(projection)], tileCoordKey)
       /\ tileCacheForProjection' = caches
       /\ sourceCalls' =
            Append(sourceCalls,
                   TileCall(tileCoord, projection,
                            caches[projKeyOf(projection)][tileCoordKey],
                            tileCount))
  /\ UNCHANGED <<triangulationVars, clipVars, solverVars, renderVars,
                 tileVars, sourceVars, imageVars, tileCache, tileFunctions,
                 tileCount>>

\* getTile constructing a reprojected tile and keeping it in the cache of
\* the projection
GetTileReprojected ==
  /\ tileFunctions # <<>>
  /\ Len(sourceCalls) < MaxSourceCalls
  /\ \E tileCoord \in TileCoords : \E projection \in Projections :
     /\ ~getsTileInternal(sourceOptions, projection)
     /\ \E coords \in SourceTileCoords :
        \E caches \in {getTileCacheForProjection(tileCacheForProjection,
                                                 projection)} :
        \E tileCoordKey \in {getKeyZXY(tileCoord[1], tileCoord[2],
                                       tileCoord[3])} :
        \E grids \in {gridsAfterGet(sourceOptions,
                                    gridsAfterGet(sourceOptions,
                                                  tileGridForProjection,
                                                  sourceOptions.projection),
                                    projection)} :
        \E src \in {getSourceTiles(
                      Source(tileCache, caches, grids, tileCount),
                      tileFunctions, coords)} :
        \E tile \in {ReprojTile(src.tileCount + 1, tileCoord, projection,
                                gridOf(sourceOptions, tileGridForProjection,
                                       sourceOptions.projection),
                                grids[projKeyOf(projection)])} :
          /\ ~containsKey(caches[projKeyOf(projection)], tileCoordKey)
          /\ tileCache' = src.tileCache
          /\ tileCacheForProjection' =
               [caches EXCEPT ![projKeyOf(projection)][tileCoordKey] = tile]
          /\ tileGridForProjection' = grids
          /\ tileCount' = tile.id
          /\ sourceCalls' =
               Append(sourceCalls,
                      TileCall(tileCoord, projection, tile, tileCount))
  /\ UNCHANGED <<triangulationVars, clipVars, solverVars, renderVars,
                 tileVars, sourceOptions, gridSet, retrieved, imageVars,
                 tileFunctions>>

\* setTileLoadFunction(tileLoadFunction)
setTileLoadFunction ==
  /\ tileFunctions # <<>>
  /\ Len(sourceCalls) < MaxSourceCalls
  /\ tileCache' = EmptyCache
  /\ tileCacheForProjection' = [key \in Projections |-> NoCache]
  /\ tileFunctions' =
       [tileFunctions EXCEPT !.tileLoadFunction = Len(sourceCalls) + 1]
  /\ sourceCalls' =
       Append(sourceCalls, SetterCall("setTileLoadFunction", tileCount))
  /\ UNCHANGED <<triangulationVars, clipVars, solverVars, renderVars,
                 tileVars, sourceVars, imageVars, tileCount>>

\* setTileUrlFunction(tileUrlFunction)
setTileUrlFunction ==
  /\ tileFunctions # <<>>
  /\ Len(sourceCalls) < MaxSourceCalls
  /\ tileCache' = EmptyCache
  /\ tileCacheForProjection' = [key \in Projections |-> NoCache]
  /\ tileFunctions' =
       [tileFunctions EXCEPT !.tileUrlFunction = Len(sourceCalls) + 1]
  /\ sourceCalls' =
       Append(sourceCalls, SetterCall("setTileUrlFunction", tileCount))
  /\ UNCHANGED <<triangulationVars, clipVars, solverVars, renderVars,
                 tileVars, sourceVars, imageVars, tileCount>>

NextCache ==
  \/ GetTileInternal
  \/ GetTileCached
  \/ GetTileReprojected
  \/ setTileLoadFunction
  \/ setTileUrlFunction

SpecCache == InitCache /\ [][NextCache]_vars
\* The constructor runs to its end: weak fairness of addQuadIfValid_, that
\* is WF_vars(addQuadIfValid_) with its ENABLED written out (a call is
\* pending exactly when the stack is not empty).
LiveSpec ==
  Spec /\ ([]<>(stack = <<>>) \/ []<><<addQuadIfValid_>>_vars)

(***************************************************************************)
(* Properties.                                                             *)
(***************************************************************************)
Built == stack = <<>> /\ quads # <<>>

TriangleIndices == 1..Len(triangles_)

\* the call that added triangle i
LeafOf(i) == quads[origin[i]]

sourceOf(i, k) == heap[triangles_[i].source[k]]

\* the squared distance between inv(midpoint of a and c) and the estimate
\* of it from the sources of a and c, both modulo the world width for a
\* quad classified wrapping
MidpointErrorSquared(q) ==
  LET centerSrc == transformInv_(Midpoint(q.a, q.c))
      dx == IF q.wrapsX
            THEN Sub(Half(Add(modulo(q.aSrc[1], sourceWorldWidth_),
                              modulo(q.cSrc[1], sourceWorldWidth_))),
                     modulo(centerSrc[1], sourceWorldWidth_))
            ELSE Sub(Half(Add(q.aSrc[1], q.cSrc[1])), centerSrc[1])
      dy == Sub(Half(Add(q.aSrc[2], q.cSrc[2])), centerSrc[2])
  IN Add(Mul(dx, dx), Mul(dy, dy))

\* ---- C1 ----
C1_Linear == transform \in {"identity", "scale"}

C1_DomainContainsImage ==
  /\ maxSourceExtent_ # Null
  /\ \A p \in {getTopLeft(targetExtent), getTopRight(targetExtent),
               getBottomRight(targetExtent), getBottomLeft(targetExtent)} :
       containsCoordinate(maxSourceExtent_, transformInv_(p))

C1_SeedForced ==
  /\ maxSubdivision > 0
  /\ sourceProj_.global
  /\ Gt(srcCoverageX(SeedQuad), Q(1, 4))

C1_SeedWraps ==
  /\ sourceProj_.canWrapX
  /\ Gt(srcCoverageX(SeedQuad), Q(1, 2))
  /\ Lt(srcCoverageX(SeedQuad), N(1))

C1_TargetsOf(i) == {triangles_[i].target[k] : k \in 1..3}

\* exactly two triangles, made by the one call, that cover the target
\* extent (each has three of its corners, both have one diagonal), with
\* source[k] = inv(target[k]), neither shifted, and no wrap flag
C1_TwoTriangles ==
  LET tl == getTopLeft(targetExtent)
      tr == getTopRight(targetExtent)
      br == getBottomRight(targetExtent)
      bl == getBottomLeft(targetExtent)
  IN /\ Len(quads) = 1
     /\ Len(triangles_) = 2
     /\ C1_TargetsOf(1) \cup C1_TargetsOf(2) = {tl, tr, br, bl}
     /\ C1_TargetsOf(1) \cap C1_TargetsOf(2) \in {{tl, br}, {tr, bl}}
     /\ \A i \in 1..2 :
          /\ \A k \in 1..3 : sourceOf(i, k) = transformInv_(triangles_[i].target[k])
          /\ ~needsShift(triangles_[i])
     /\ ~wrapsXInSource_

\* C1 as stated: for the identity or an exact linear scaling, with the
\* inverse image of the target extent inside the source domain, the mesh is
\* exactly two triangles covering the target extent, source = inv(target),
\* needsShift false, wrapsX false, and nothing is subdivided.
C1_IdentityTwoTriangles ==
  (Built /\ C1_Linear /\ C1_DomainContainsImage) => C1_TwoTriangles

\* C1 amended: the same, when moreover the seed quad is neither classified
\* wrapping (canWrapX and 0.5 < srcCoverageX < 1) nor forced to subdivide
\* (global source projection, srcCoverageX > 0.25 and depth left).
C1_IdentityTwoTrianglesUnlessWide ==
  (Built /\ C1_Linear /\ C1_DomainContainsImage
     /\ ~C1_SeedWraps /\ ~C1_SeedForced) => C1_TwoTriangles

C1_Witness ==
  /\ Built
  /\ transform = "scale"
  /\ maxSubdivision = 2
  /\ maxSourceExtent_ # Null
  /\ C1_DomainContainsImage
  /\ ~C1_SeedWraps
  /\ ~C1_SeedForced
  /\ Len(triangles_) = 2

\* ---- C2 ----
C2_UnclippedAboveDepthZero(i) ==
  LeafOf(i).outcome = "leaf" /\ LeafOf(i).maxSubdiv > 0

RECURSIVE Pow4(_)
Pow4(n) == IF n = 0 THEN 1 ELSE 4 * Pow4(n - 1)

C3_DepthBounded ==
  /\ \A k \in 1..Len(stack) : stack[k].maxSubdiv \in 0..maxSubdivision
  /\ \A k \in 1..Len(quads) :
       /\ quads[k].maxSubdiv \in 0..maxSubdivision
       /\ quads[k].outcome = "subdivided" => quads[k].maxSubdiv >= 1
  /\ leaves <= Pow4(maxSubdivision)

\* C3: for every inv and every maxDepth >= 0 the construction terminates,
\* no quad is refined below nesting level maxDepth, and there are at most
\* 4^maxDepth leaf quads.
C3_TerminatesWithinDepth == []C3_DepthBounded /\ <>(stack = <<>>)

C3_Witness ==
  /\ Built
  /\ maxSubdivision = 2
  /\ leaves = 16
  /\ \A k \in 1..Len(quads) :
       quads[k].maxSubdiv > 0 =>
         Gt(MidpointErrorSquared(quads[k]), errorThresholdSquared_)

\* ---- C4 ----
C4_ErrorAboveThresholdEverywhere ==
  /\ Built
  /\ maxSubdivision = 2
  /\ errorThresholdSquared_ = N(1)
  /\ \A k \in 1..Len(quads) :
       /\ quads[k].outcome \in {"subdivided", "leaf"}
       /\ quads[k].maxSubdiv > 0 =>
            Gt(MidpointErrorSquared(quads[k]), errorThresholdSquared_)

\* C4 as stated: when the midpoint error exceeds the threshold (1) at every
\* quad, maxDepth = 2 and nothing is clipped, the mesh has 16 triangles.
C4_SixteenTriangles ==
  C4_ErrorAboveThresholdEverywhere => Len(triangles_) = 16

\* C4 amended: under the same conditions the mesh has 16 leaf quads of two
\* triangles each: 32 triangles.
C4_ThirtyTwoTriangles ==
  C4_ErrorAboveThresholdEverywhere => (leaves = 16 /\ Len(triangles_) = 32)

C4_Witness ==
  /\ C4_ErrorAboveThresholdEverywhere
  /\ transform = "bend"
  /\ MidpointErrorSquared(quads[2]) = N(4)

\* ---- C5 ----
C5_QuadRing == [k \in 1..4 |-> Vertex(k, clipQuad[k])]

C5_QuadInside ==
  \A k \in 1..4 : containsCoordinate(clipExtent, clipQuad[k])

C5_RingInside ==
  \A k \in 1..Len(vertices) : containsCoordinate(clipExtent, vertices[k].at)

C5_QuadFinite ==
  \A k \in 1..4 :
    isFiniteNumber(clipQuad[k][1]) /\ isFiniteNumber(clipQuad[k][2])

C5_ExtentHasArea ==
  Lt(clipExtent[1], clipExtent[3]) /\ Lt(clipExtent[2], clipExtent[4])

\* C5 as stated: for every quad and every axis-aligned rectangle, every
\* vertex of the ring left by the four edges is inside or on the rectangle,
\* and a quad with its four vertices inside or on the rectangle comes out as
\* the same four vertices in the same order.
C5_ClippingClosure ==
  clipDone => (C5_RingInside /\ (C5_QuadInside => vertices = C5_QuadRing))

\* C5 amended: every vertex of the ring is inside or on the rectangle when
\* the quad's coordinates are finite (no NaN, no infinity); a quad inside or
\* on the rectangle comes out unchanged.
C5_ClippingClosureOfFiniteQuads ==
  clipDone =>
    /\ C5_QuadFinite => C5_RingInside
    /\ C5_QuadInside => vertices = C5_QuadRing

C5_Witness ==
  /\ clipDone
  /\ C5_QuadFinite
  /\ C5_ExtentHasArea
  /\ Len(vertices) >= 5
  /\ \E k \in 1..Len(vertices) : vertices[k].ref = 0
  /\ \E k \in 1..Len(vertices) : vertices[k].ref > 0

\* ---- C6 ----
\* C6: when a source domain is supplied, every triangle of the finished
\* mesh whose needsShift is false has its three source vertices inside or
\* on the domain.
C6_SourcesInsideDomain ==
  (Built /\ maxSourceExtent_ # Null) =>
    \A i \in TriangleIndices :
      ~needsShift(triangles_[i]) =>
        \A k \in 1..3 : containsCoordinate(maxSourceExtent_, sourceOf(i, k))

\* ---- C7 ----
\* C7: a triangle of an unclipped leaf classified wrapping carries
\* needsShift = true, a triangle of a leaf not classified wrapping carries
\* needsShift = false.
C7_NeedsShiftFollowsWrapping ==
  \A i \in TriangleIndices :
    /\ (LeafOf(i).outcome = "leaf" /\ LeafOf(i).wrapsX)
         => needsShift(triangles_[i])
    /\ ~LeafOf(i).wrapsX => ~needsShift(triangles_[i])

\* ---- C8 ----
\* C8: the wrap flag of a finished mesh is true if and only if one of its
\* triangles has needsShift = true.
C8_WrapFlagIffShiftedTriangle ==
  Built =>
    (wrapsXInSource_ <=> \E i \in TriangleIndices : needsShift(triangles_[i]))

\* ---- C9 ----
C9_SameCoordinate(p, q) ==
  /\ Le(p[1], q[1]) /\ Le(q[1], p[1])
  /\ Le(p[2], q[2]) /\ Le(q[2], p[2])

\* C9: no triangle of a finished mesh has its three source vertices at the
\* same coordinates.
C9_NoTriangleOfOnePoint ==
  Built =>
    \A i \in TriangleIndices :
      ~(/\ C9_SameCoordinate(sourceOf(i, 1), sourceOf(i, 2))
        /\ C9_SameCoordinate(sourceOf(i, 2), sourceOf(i, 3)))

\* ---- C10 ----
\* x is in [minX, maxX] of the extent, or, for a mesh that wraps, some
\* x + k * sourceWorldWidth_ is
C10_ContainsX(extent, x) ==
  IF wrapsXInSource_
  THEN Le(modulo(Sub(x, extent[1]), sourceWorldWidth_),
          Sub(extent[3], extent[1]))
  ELSE Le(extent[1], x) /\ Le(x, extent[3])

C10_Contains(extent) ==
  \A i \in TriangleIndices : \A k \in 1..3 :
    /\ C10_ContainsX(extent, sourceOf(i, k)[1])
    /\ Le(extent[2], sourceOf(i, k)[2])
    /\ Le(sourceOf(i, k)[2], extent[4])

\* C10: two calls of calculateSourceExtent on a mesh return equal extents,
\* and the extent contains every source vertex of every triangle, the x
\* compared modulo the source world width when the mesh wraps.
C10_SourceExtentEqualAndContaining ==
  /\ Len(returned) >= 2 => returned[1] = returned[2]
  /\ \A r \in 1..Len(returned) : C10_Contains(returned[r])

\* ---- C18 ----
\* srcCoverageX of a call, from the source corners it was made with
C18_Coverage(q) ==
  Div(getWidth(boundingExtent(<<q.aSrc, q.bSrc, q.cSrc, q.dSrc>>)),
      sourceWorldWidth_)

C18_Forced(q) ==
  /\ ~q.wrapsX
  /\ sourceProj_.global
  /\ Gt(C18_Coverage(q), RASTER_REPROJ_MAX_TRIANGLE_WIDTH)

\* the calls that compare a midpoint error with the threshold
C18_ErrorTested(q) ==
  q.outcome # "outside" /\ q.maxSubdiv > 0 /\ ~C18_Forced(q)

\* the x of a source corner as the estimate takes it: modulo the world
\* width for a wrapping quad
C18_X(q, p) == IF q.wrapsX THEN modulo(p[1], sourceWorldWidth_) ELSE p[1]

\* the squared distance between inv(center) and the mean of the four
\* source corners, every x modulo the world width for a wrapping quad
C18_FourCornerErrorSquared(q) ==
  LET centerSrc == transformInv_(Midpoint(q.a, q.c))
      estimX == Div(Add(Add(C18_X(q, q.aSrc), C18_X(q, q.bSrc)),
                        Add(C18_X(q, q.cSrc), C18_X(q, q.dSrc))), N(4))
      estimY == Div(Add(Add(q.aSrc[2], q.bSrc[2]), Add(q.cSrc[2], q.dSrc[2])),
                    N(4))
      dx == Sub(estimX, C18_X(q, centerSrc))
      dy == Sub(estimY, centerSrc[2])
  IN Add(Mul(dx, dx), Mul(dy, dy))

\* C18 as stated: the estimate compared with inv(center) is the mean of the
\* four source corners, its x and the x of inv(center) modulo the world
\* width for a wrapping quad: a quad that tests its error is subdivided
\* exactly when that distance squared exceeds the threshold squared.
C18_EstimateIsMeanOfFourCorners ==
  \A k \in 1..Len(quads) :
    C18_ErrorTested(quads[k]) =>
      (quads[k].outcome = "subdivided"
         <=> Gt(C18_FourCornerErrorSquared(quads[k]), errorThresholdSquared_))

\* C18 amended: the estimate is the mean of the two source corners aSrc and
\* cSrc of the diagonal; for a wrapping quad the x of aSrc, of cSrc and of
\* inv(center) are each taken modulo the world width before the mean and
\* the difference.
C18_EstimateIsMeanOfDiagonal ==
  \A k \in 1..Len(quads) :
    C18_ErrorTested(quads[k]) =>
      (quads[k].outcome = "subdivided"
         <=> Gt(MidpointErrorSquared(quads[k]), errorThresholdSquared_))

C18_Witness ==
  /\ Built
  /\ \E k \in 1..Len(quads) :
       /\ C18_ErrorTested(quads[k])
       /\ quads[k].outcome = "subdivided"
       /\ ~Gt(C18_FourCornerErrorSquared(quads[k]), errorThresholdSquared_)

\* ---- C19 ----
C19_TooWide(q) ==
  /\ q.maxSubdiv > 0
  /\ sourceProj_.global
  /\ ~q.wrapsX
  /\ Gt(C18_Coverage(q), RASTER_REPROJ_MAX_TRIANGLE_WIDTH)

\* C19 as stated: a quad with depth left, of a global source projection,
\* not wrapping and wider than the maximum triangle width is always
\* subdivided, so no such quad is a leaf.
C19_WideQuadSubdivided ==
  \A k \in 1..Len(quads) :
    C19_TooWide(quads[k]) => quads[k].outcome = "subdivided"

\* C19 amended: such a quad is subdivided unless it is dropped first because
\* its source bounding box does not intersect the source domain; so every
\* leaf that was not dropped, reached with depth left in a global projection
\* and not wrapping, has srcCoverageX <= the maximum triangle width.
C19_WideQuadSubdividedUnlessOutside ==
  \A k \in 1..Len(quads) :
    /\ (C19_TooWide(quads[k]) /\ quads[k].outcome # "outside")
         => quads[k].outcome = "subdivided"
    /\ (/\ quads[k].outcome \in {"leaf", "clipped"}
        /\ quads[k].maxSubdiv > 0
        /\ sourceProj_.global
        /\ ~quads[k].wrapsX)
         => Le(C18_Coverage(quads[k]), RASTER_REPROJ_MAX_TRIANGLE_WIDTH)

C19_Witness ==
  /\ Built
  /\ \E k \in 1..Len(quads) :
       /\ C19_TooWide(quads[k])
       /\ quads[k].outcome = "subdivided"
       /\ MidpointErrorSquared(quads[k]) = N(0)
  /\ \E k \in 1..Len(quads) :
       /\ quads[k].outcome = "leaf"
       /\ quads[k].maxSubdiv > 0

\* ---- C20 ----
\* the step is a call of addQuadIfValid_ on the quad at the head of the stack
C20_CallStep == stack # <<>> /\ Len(quads') = Len(quads) + 1

C20_HeadOutside ==
  /\ maxSourceExtent_ # Null
  /\ ~intersects(srcQuadExtent(Head(stack)), maxSourceExtent_)

\* the ring left of the head's source quad by the source domain
C20_HeadRing ==
  LET f == Head(stack)
  IN clipRing(Vertex(f.aSrc, makeFinite(heap[f.aSrc], maxSourceExtent_)),
              Vertex(f.bSrc, makeFinite(heap[f.bSrc], maxSourceExtent_)),
              Vertex(f.cSrc, makeFinite(heap[f.cSrc], maxSourceExtent_)),
              Vertex(f.dSrc, makeFinite(heap[f.dSrc], maxSourceExtent_)),
              maxSourceExtent_)

C20_HeadClippedAway ==
  /\ quads'[Len(quads')].outcome = "clipped"
  /\ Len(C20_HeadRing) < 3

\* C20: a call on a quad whose source bounding box does not intersect the
\* source domain adds no triangle, makes no recursive call and leaves the
\* wrap flag as it is; a call on a leaf whose clipped ring has fewer than 3
\* vertices adds no triangle; the triangles of the mesh stay as they are.
C20_DroppedQuadsAddNothing ==
  [][C20_CallStep =>
       /\ C20_HeadOutside =>
            /\ triangles_' = triangles_
            /\ stack' = Tail(stack)
            /\ wrapsXInSource_' = wrapsXInSource_
       /\ C20_HeadClippedAway => triangles_' = triangles_]_vars

\* a quad was dropped as outside after triangles had been added
C20_Witness ==
  \E k \in 2..Len(quads) :
    /\ quads[k].outcome = "outside"
    /\ \E i \in TriangleIndices : origin[i] < k

\* ---- C14 ----
\* the coefficient matrix of A without row r and column k
C14_Minor(M, r, k) ==
  [i \in 1..(Len(M) - 1) |->
     [j \in 1..(Len(M) - 1) |->
        M[IF i < r THEN i ELSE i + 1][IF j < k THEN j ELSE j + 1]]]

\* the determinant, by expansion along the first row
RECURSIVE C14_Det(_)
C14_Det(M) ==
  IF Len(M) = 1 THEN M[1][1]
  ELSE LET term(k) == Mul(IF k % 2 = 1 THEN M[1][k] ELSE Neg(M[1][k]),
                          C14_Det(C14_Minor(M, 1, k)))
           sum[k \in 0..Len(M)] ==
             IF k = 0 THEN N(0) ELSE Add(sum[k - 1], term(k))
       IN sum[Len(M)]

\* the 6 x 6 matrix of an affine system is two copies of the 3 x 3 matrix of
\* rows [x, y, 1]: it is singular when that one is
C14_Singular ==
  LET n == Len(matrixA)
      coefficients == [r \in 1..n |-> [k \in 1..n |-> matrixA[r][k]]]
      points == [r \in 1..3 |-> [k \in 1..3 |-> matrixA[r][k]]]
  IN IF n = 6 THEN C14_Det(points) = N(0) ELSE C14_Det(coefficients) = N(0)

\* row r of A . x
C14_RowTimes(r, x) ==
  LET sum[k \in 0..Len(x)] ==
        IF k = 0 THEN N(0) ELSE Add(sum[k - 1], Mul(matrixA[r][k], x[k]))
  IN sum[Len(x)]

rendered == renderArgs # <<>> /\ triangleIndex = Len(renderArgs.triangles)

\* C11: every save of renderTriangles is undone by a restore on every path
\* through it, so after it returns the context has as many saved states as
\* before the call (none).
C11_SavedDepthRestored == rendered => Len(context.saved) = 0

\* ---- C12 ----
C12_Collinear(p) ==
  Sub(Mul(Sub(p[2][1], p[1][1]), Sub(p[3][2], p[1][2])),
      Mul(Sub(p[2][2], p[1][2]), Sub(p[3][1], p[1][1]))) = N(0)

\* the source vertices as the triangle holds them
C12_Stored(tri) == tri.source

\* the source vertices as the renderer reads them
C12_Read(tri) == sourcePoints(renderArgs, tri)

C12_DrawingCalls == {"setTransform", "translate", "scale", "clip", "drawImage"}

\* the drawing calls of a history that were not made for a triangle of
\* skip, without the number of the triangle they were made for
C12_CallsBesides(history, skip) ==
  LET kept == SelectSeq(history,
                        LAMBDA c : /\ c.name \in C12_DrawingCalls
                                   /\ c.triangle \notin skip)
  IN [k \in 1..Len(kept) |->
        [name |-> kept[k].name, args |-> kept[k].args,
         source |-> kept[k].source, transform |-> kept[k].transform,
         clip |-> kept[k].clip]]

\* the collinear triangles are skipped and the others drawn as without them
C12_SkippedAlone(collinear(_)) ==
  LET singular == {i \in 1..Len(renderArgs.triangles) :
                     collinear(renderArgs.triangles[i])}
      others == SelectSeq(renderArgs.triangles, LAMBDA tri : ~collinear(tri))
      without == renderTrianglesFrom(NewContext,
                                     [renderArgs EXCEPT !.triangles = others],
                                     1)
  IN /\ \A i \in singular :
          /\ coefsOf(renderArgs, renderArgs.triangles[i]) = Null
          /\ \A k \in 1..Len(context.calls) :
               context.calls[k].triangle = i =>
                 context.calls[k].name \notin {"clip", "drawImage"}
     /\ C12_CallsBesides(context.calls, singular)
          = C12_CallsBesides(without.calls, {})

C13_Translations(i, j) ==
  SelectSeq(context.calls,
            LAMBDA c : c.name = "translate" /\ c.triangle = i /\ c.source = j)

C13_ShiftExpected(tri, src) ==
  /\ needsShift(tri)
  /\ renderArgs.sourceExtent # Null
  /\ Lt(src.extent[1],
        Half(Add(renderArgs.sourceExtent[1], renderArgs.sourceExtent[3])))

C13_Drawn(i) ==
  \E k \in 1..Len(context.calls) :
    context.calls[k].triangle = i /\ context.calls[k].name = "setTransform"

\* C13: a source image of a drawn triangle gets the second translation, by
\* (width of the source extent, 0), exactly when the triangle needs the
\* shift, a source extent was given and the x of the image extent's top
\* left corner is less than the x of the centre of the source extent.
C13_ShiftIffFlaggedAndLeftOfCentre ==
  rendered =>
    \A i \in 1..Len(renderArgs.triangles) : \A j \in 1..Len(renderArgs.sources) :
      C13_Drawn(i) =>
        IF C13_ShiftExpected(renderArgs.triangles[i], renderArgs.sources[j])
        THEN /\ Len(C13_Translations(i, j)) = 2
             /\ C13_Translations(i, j)[2].args
                  = <<Sub(renderArgs.sourceExtent[3],
                          renderArgs.sourceExtent[1]), N(0)>>
        ELSE Len(C13_Translations(i, j)) = 1

\* a triangle that needs the shift was drawn from an image left of the
\* centre, which was shifted, and from one at the centre, which was not
C13_Witness ==
  /\ rendered
  /\ \E i \in 1..Len(renderArgs.triangles) :
       /\ C13_Drawn(i)
       /\ needsShift(renderArgs.triangles[i])
       /\ renderArgs.sourceExtent # Null
       /\ \E j, k \in 1..Len(renderArgs.sources) :
            /\ Len(C13_Translations(i, j)) = 2
            /\ Len(C13_Translations(i, k)) = 1
            /\ renderArgs.sources[k].extent[1] = N(0)

\* ---- C15 ----
created == tileArgs # <<>> /\ dstImage # <<>>

\* the extent of the four corners of the target tile in the source
C15_SourceExtent ==
  LET e == targetExtentOf(tileArgs)
  IN boundingExtent(<<transformInvOf(tileArgs.transformInv, <<e[1], e[2]>>),
                      transformInvOf(tileArgs.transformInv, <<e[1], e[4]>>),
                      transformInvOf(tileArgs.transformInv, <<e[3], e[2]>>),
                      transformInvOf(tileArgs.transformInv, <<e[3], e[4]>>)>>)

C15_OutsideSource ==
  LET g == tileArgs.sourceTileGrid.extent
      s == C15_SourceExtent
  IN ~(Le(g[1], s[3]) /\ Ge(g[3], s[1]) /\ Le(g[2], s[4]) /\ Ge(g[4], s[2]))

\* C15: a tile whose source extent does not intersect the extent of the
\* source tile grid is created EMPTY, and the getter is never called for it.
C15_EmptyOutsideSourceGrid ==
  created /\ C15_OutsideSource =>
    dstImage.state = "EMPTY" /\ getTileCalls = <<>>

C16_InsideTargetGrid ==
  LET full == getFullTileRange(tileArgs.targetTileGrid, tileArgs.z)
  IN /\ Le(full.minX, N(tileArgs.x)) /\ Le(N(tileArgs.x), full.maxX)
     /\ Le(full.minY, N(tileArgs.y)) /\ Le(N(tileArgs.y), full.maxY)

\* a tile of the target grid created EMPTY for a source extent outside a
\* source grid that has tiles the getter would give
C15_Witness ==
  /\ created
  /\ C15_OutsideSource
  /\ C16_InsideTargetGrid
  /\ tileArgs.getTile = <<"LOADED", "LOADED">>
  /\ dstImage.state = "EMPTY"

\* ---- C16 ----
\* C16: a tile whose coordinate is outside the target tile grid is created
\* EMPTY, and the getter is never called for it.
C16_EmptyOutsideTargetGrid ==
  created /\ ~C16_InsideTargetGrid =>
    dstImage.state = "EMPTY" /\ getTileCalls = <<>>

C21_Corners(f) == {f.aSrc, f.bSrc, f.cSrc, f.dSrc}

\* C21: when a leaf quad is clipped to the source domain, every non-finite
\* component of its source corners (+Infinity, -Infinity or NaN) is
\* replaced by a value within the domain's bounds on that axis and every
\* finite component is left as it is.
C21_NonFiniteReplaced ==
  [][QuadLeafClipped =>
       \A r \in C21_Corners(Head(stack)) : \A k \in 1..2 :
         IF isFiniteNumber(heap[r][k])
         THEN heap'[r][k] = heap[r][k]
         ELSE /\ Le(maxSourceExtent_[k], heap'[r][k])
              /\ Le(heap'[r][k], maxSourceExtent_[k + 2])]_vars

\* ---- C22 ----
\* C22: every triangle of the mesh pairs its vertices through the
\* transforms: a triangle of a clipped leaf has target[k] =
\* fwd(source[k]) and needsShift false, a triangle of an unclipped leaf
\* has source[k] = inv(target[k]), the value inv returns for that point.
C22_PairedThroughTransforms ==
  \A i \in TriangleIndices :
    IF LeafOf(i).outcome = "clipped"
    THEN /\ \A k \in 1..3 :
              triangles_[i].target[k] = transformFwd_(sourceOf(i, k))
         /\ ~needsShift(triangles_[i])
    ELSE \A k \in 1..3 :
           sourceOf(i, k) = transformInv_(triangles_[i].target[k])

\* ---- C23 ----
\* the target corners a call was made with, in the order of its arguments
C23_Corners(q) == <<q.a, q.b, q.c, q.d>>

C23_Extent(q) == boundingExtent(C23_Corners(q))

\* the corners of a rectangle from its top left one, clockwise (y upwards)
C23_Clockwise(extent) ==
  <<getTopLeft(extent), getTopRight(extent), getBottomRight(extent),
    getBottomLeft(extent)>>

\* the three points turn to the right
C23_TurnsRight(o, p, q) == Lt(Cross(o, p, q), N(0))

\* the quarters of a rectangle, north-west, north-east, south-east,
\* south-west
C23_Quarters(extent) ==
  LET midX == Half(Add(extent[1], extent[3]))
      midY == Half(Add(extent[2], extent[4]))
  IN <<<<extent[1], midY, midX, extent[4]>>,
       <<midX, midY, extent[3], extent[4]>>,
       <<midX, extent[2], extent[3], midY>>,
       <<extent[1], extent[2], midX, midY>>>>

\* the calls, in the order they were made, on the quads one level below
\* call k that lie within its quad
C23_Children(k) ==
  SelectSeq([j \in 1..Len(quads) |-> j],
            LAMBDA j :
              /\ j > k
              /\ quads[j].maxSubdiv = quads[k].maxSubdiv - 1
              /\ \A p \in {quads[j].a, quads[j].b, quads[j].c, quads[j].d} :
                   containsCoordinate(C23_Extent(quads[k]), p))

\* the indices of the triangles call k added
C23_TrianglesOf(k) == {i \in TriangleIndices : origin[i] = k}

\* call k was made on a clockwise quad
C23_QuadClockwise(q, extent) ==
  /\ C23_Corners(q) = C23_Clockwise(extent)
  /\ C23_TurnsRight(q.a, q.b, q.c)
  /\ C23_TurnsRight(q.c, q.d, q.a)

\* the calls on the quarters of call k come in the order NW, NE, SE, SW
C23_QuartersInOrder(children, quarters) ==
  /\ Len(children) <= 4
  /\ Built => Len(children) = 4
  /\ \A n \in 1..Len(children) :
       C23_Corners(quads[children[n]]) = C23_Clockwise(quarters[n])

\* the leaf call k added (a,c,d) and then (a,b,c), both clockwise
C23_LeafTriangles(q, added) ==
  /\ Cardinality(added) = 2
  /\ \E i \in added :
       /\ i + 1 \in added
       /\ triangles_[i].target = <<q.a, q.c, q.d>>
       /\ triangles_[i + 1].target = <<q.a, q.b, q.c>>
  /\ C23_TurnsRight(q.a, q.c, q.d)
  /\ C23_TurnsRight(q.a, q.b, q.c)

\* C23: every quad visited lists its target corners clockwise from the
\* top left one, the quarters of a subdivided quad are visited in the
\* order NW, NE, SE, SW, and an unclipped leaf adds the triangles (a,c,d)
\* and then (a,b,c), both of clockwise winding.
C23_ClockwiseInOrder ==
  \A k \in 1..Len(quads) :
    \E extent \in {C23_Extent(quads[k])} :
      /\ C23_QuadClockwise(quads[k], extent)
      /\ (quads[k].outcome = "subdivided") =>
           \E children \in {C23_Children(k)} :
             C23_QuartersInOrder(children, C23_Quarters(extent))
      /\ (quads[k].outcome = "leaf") =>
           C23_LeafTriangles(quads[k], C23_TrianglesOf(k))

\* a finished mesh of two levels of subdivision with an unclipped leaf on
\* the lower one
C23_Witness ==
  /\ Built
  /\ \E k \in 1..Len(quads) :
       /\ quads[k].outcome = "subdivided"
       /\ quads[k].maxSubdiv = 1
       /\ \E n \in 1..4 : quads[C23_Children(k)[n]].outcome = "leaf"

\* ---- C24 ----
\* C24: for a mesh that is not empty, every extent calculateSourceExtent
\* returned has minX <= maxX and minY <= maxY, and when the mesh wraps
\* (the bounds were shifted back) both x bounds are at most the maxX of
\* the source projection's extent.
C24_SourceExtentWellFormed ==
  \A n \in 1..Len(returned) :
    (triangles_ # <<>>) =>
      /\ Le(returned[n][1], returned[n][3])
      /\ Le(returned[n][2], returned[n][4])
      /\ wrapsXInSource_ =>
           /\ Le(returned[n][1], sourceProj_.extent[3])
           /\ Le(returned[n][3], sourceProj_.extent[3])

\* ---- C25 ----
\* the x of the translations made for source j of triangle i, added up
C25_TranslationX(i, j) ==
  LET made == SelectSeq(context.calls,
                        LAMBDA c : /\ c.name = "translate"
                                   /\ c.triangle = i
                                   /\ c.source = j)
  IN IF Len(made) = 2 THEN Add(made[1].args[1], made[2].args[1])
     ELSE made[1].args[1]

C25_Inside(extent, domain) ==
  /\ Le(domain[1], extent[1]) /\ Le(extent[3], domain[3])
  /\ Le(domain[2], extent[2]) /\ Le(extent[4], domain[4])

\* a drawn triangle that needs the shift and an image inside the source
\* extent given
C25_Shifted(i, j) ==
  /\ \E k \in 1..Len(context.calls) :
       context.calls[k].triangle = i /\ context.calls[k].name = "setTransform"
  /\ needsShift(renderArgs.triangles[i])
  /\ renderArgs.sourceExtent # Null
  /\ C25_Inside(renderArgs.sources[j].extent, renderArgs.sourceExtent)

\* C25: for a triangle with needsShift and a source image inside the
\* source extent, the x translation applied to the image is (x of its top
\* left corner mod shiftDistance) - (x0 mod shiftDistance).
C25_ImageInShiftedFrame ==
  rendered =>
    \A i \in 1..Len(renderArgs.triangles) : \A j \in 1..Len(renderArgs.sources) :
      C25_Shifted(i, j) =>
        C25_TranslationX(i, j) =
          Sub(modulo(getTopLeft(renderArgs.sources[j].extent)[1],
                     getWidth(renderArgs.sourceExtent)),
              modulo(renderArgs.triangles[i].source[1][1],
                     getWidth(renderArgs.sourceExtent)))

\* ---- C26 ----
\* C26: the clipping of a leaf quad changes no source coordinate of a quad
\* still to be processed and none of a triangle already in the mesh.
C26_ClippingLeavesOthersAlone ==
  [][QuadLeafClipped =>
       /\ \A n \in 1..Len(stack') : \A r \in C21_Corners(stack'[n]) :
            heap'[r] = heap[r]
       /\ \A i \in 1..Len(triangles_) : \A k \in 1..3 :
            heap'[triangles_[i].source[k]] = heap[triangles_[i].source[k]]]_vars

\* ---- C27 ----
\* no source tile is IDLE or LOADING in the states given
C27_Settled(states) ==
  \A k \in 1..Len(states) : states[k] \notin {"IDLE", "LOADING"}

\* C27: for a tile created with at least one source tile, reproject() runs
\* exactly once, and only when every source tile that was IDLE or LOADING
\* at creation has reached LOADED, ERROR or EMPTY: it never runs twice,
\* every run finds the source tiles settled, and it has run once they are.
C27_ReprojectedOnceWhenSettled ==
  /\ Len(reprojections) <= 1
  /\ \A n \in 1..Len(reprojections) : C27_Settled(reprojections[n])
  /\ (srcTiles # <<>>
        /\ C27_Settled([k \in 1..Len(srcTiles) |-> srcTiles[k].state]))
       => Len(reprojections) = 1

\* ---- C28 ----
\* the tile has its canvas, and nothing was drawn on it from a source
C28_NoSourceDrawn ==
  /\ dstImage.canvas_ # Null
  /\ \A k \in 1..Len(dstImage.canvas_.calls) :
       dstImage.canvas_.calls[k].name # "drawImage"

\* every source tile has ended in ERROR or EMPTY
C28_AllFailed ==
  /\ srcTiles # <<>>
  /\ \A k \in 1..Len(srcTiles) : srcTiles[k].state \in {"ERROR", "EMPTY"}

\* the state of the tile createTile returned, if it has
C28_State == IF created THEN dstImage.state ELSE "NONE"

\* C28: when every source tile comes to LOADED, ERROR or EMPTY, a tile
\* that createTile returned LOADING becomes LOADED; when all its source
\* tiles ended in ERROR or EMPTY it is LOADED with a canvas on which no
\* source was drawn.
C28_EventuallyLoaded ==
  /\ (C28_State = "LOADING") ~> (C28_State = "LOADED")
  /\ [](C28_AllFailed => (C28_State = "LOADED" /\ C28_NoSourceDrawn))

\* a tile returned LOADING is LOADED after its source tiles all failed
C28_Witness ==
  /\ created
  /\ dstImage.state = "LOADED"
  /\ C28_AllFailed
  /\ \E k \in 1..Len(srcTiles) :
       /\ srcTiles[k].state = "EMPTY"
       /\ getTileFunction(tileArgs, srcTiles[k].tileCoord[1],
                          srcTiles[k].tileCoord[2],
                          srcTiles[k].tileCoord[3]).state = "LOADING"

\* ---- C29 ----
\* createImage was called on a source image that is IDLE or LOADING
C29_NotYetLoaded ==
  /\ imageArgs # <<>>
  /\ imageArgs.getImage \in {"IDLE", "LOADING"}

C29_SourceState == IF srcImage = <<>> THEN "NONE" ELSE srcImage.state

C29_State == IF reprojectedImage = <<>> THEN "NONE" ELSE reprojectedImage.state

\* C29: a reprojected image made by createImage from a source image that
\* is not yet LOADED becomes LOADED once the source image has become
\* LOADED, whatever change events the source image has on the way, a
\* change to LOADING before the change to LOADED among them.
C29_EventuallyLoaded ==
  (C29_NotYetLoaded /\ C29_SourceState = "LOADED") ~> (C29_State = "LOADED")

\* ---- C30 ----
\* call k is a getTile with a projection not equivalent to the projection
\* of the source
C30_Reprojects(k) ==
  /\ sourceCalls[k].name = "getTile"
  /\ sourceOptions.projection # NoProjection
  /\ ~equivalent(sourceOptions.projection, sourceCalls[k].projection)

\* calls i and j ask for the same tile in the same projection
C30_SameRequest(i, j) ==
  /\ sourceCalls[i].tileCoord = sourceCalls[j].tileCoord
  /\ sourceCalls[i].projection = sourceCalls[j].projection

C30_IsSetter(k) ==
  sourceCalls[k].name \in {"setTileUrlFunction", "setTileLoadFunction"}

\* no setter was called after call i and before call j
C30_NoSetterBetween(i, j) == \A k \in (i + 1)..(j - 1) : ~C30_IsSetter(k)

\* the calls before j, with no setter since, that ask for what j asks for
C30_Earlier(j) ==
  {i \in 1..(j - 1) : /\ C30_Reprojects(i)
                      /\ C30_SameRequest(i, j)
                      /\ C30_NoSetterBetween(i, j)}

\* a getTile constructs a reprojected tile if it is the first to ask for
\* it since the last setter, and otherwise returns the tile of the first
C30_ConstructedOnce ==
  \A j \in 1..Len(sourceCalls) :
    C30_Reprojects(j) =>
      /\ sourceCalls[j].tile.class = "ol.reproj.Tile"
      /\ sourceCalls[j].constructed <=> C30_Earlier(j) = {}
      /\ \A i \in C30_Earlier(j) : sourceCalls[i].tile = sourceCalls[j].tile

\* when a setter has returned, no cache of the source keeps a tile
C30_EmptyAfterSetter ==
  /\ sourceCalls # <<>>
  /\ C30_IsSetter(Len(sourceCalls))
  => /\ \A key \in TileKeys : ~containsKey(tileCache, key)
     /\ \A projKey \in Projections :
          \/ tileCacheForProjection[projKey] = NoCache
          \/ \A key \in TileKeys :
               ~containsKey(tileCacheForProjection[projKey], key)

\* a getTile after a setter returns a tile constructed after the setter
C30_NewAfterSetter ==
  \A i \in 1..Len(sourceCalls) : \A j \in (i + 1)..Len(sourceCalls) :
    C30_IsSetter(i) /\ sourceCalls[j].name = "getTile" =>
      sourceCalls[j].tile.id > sourceCalls[i].tileCount

\* C30: for a TileImage source and a projection not equivalent to its own,
\* the getTile calls for one tile coordinate and projection return one
\* reprojected tile, constructed by the first of them, until
\* setTileUrlFunction or setTileLoadFunction is called; after a setter the
\* tile cache and the caches by projection keep no tile, and no later
\* getTile returns a tile constructed before the setter.
C30_OneTileUntilSetter ==
  /\ C30_ConstructedOnce
  /\ C30_EmptyAfterSetter
  /\ C30_NewAfterSetter

\* a reprojected tile constructed, returned again, dropped by a setter and
\* constructed anew
C30_Witness ==
  /\ Len(sourceCalls) = 4
  /\ C30_Reprojects(1)
  /\ sourceCalls[1].constructed
  /\ C30_Reprojects(2)
  /\ C30_SameRequest(1, 2)
  /\ sourceCalls[2].tile = sourceCalls[1].tile
  /\ C30_IsSetter(3)
  /\ C30_Reprojects(4)
  /\ C30_SameRequest(1, 4)
  /\ sourceCalls[4].constructed
  /\ sourceCalls[4].tile.id # sourceCalls[1].tile.id

====
